---- MODULE Spec2Model ----
(***************************************************************************)
(* Model of the property-management agent: the security layer              *)
(* (agent/security.py) and the self-correcting LangGraph state machine     *)
(* (agent/graph.py).                                                       *)
(*                                                                         *)
(* Text (user questions, SQL, error messages returned by the executor) is  *)
(* a sequence of one-character strings, so that the regular expressions    *)
(* and substring tests of the code are computed character by character.    *)
(***************************************************************************)
EXTENDS Integers, Sequences, FiniteSets, TLC

(***************************************************************************)
(* Bounds of the model                                                     *)
(***************************************************************************)
\* max_retries is drawn from 0..MaxRetriesBound
MaxRetriesBound == 2

\* handle_error is not modelled for a retry_count of RetryCap or more (no call
\* of the program enters it there)
RetryCap == MaxRetriesBound

(***************************************************************************)
(* Characters: str.upper(), str.lower(), \w, \s                            *)
(***************************************************************************)
LowerLetters == <<"a","b","c","d","e","f","g","h","i","j","k","l","m",
                  "n","o","p","q","r","s","t","u","v","w","x","y","z">>

UpperLetters == <<"A","B","C","D","E","F","G","H","I","J","K","L","M",
                  "N","O","P","Q","R","S","T","U","V","W","X","Y","Z">>

Digits == <<"0","1","2","3","4","5","6","7","8","9">>

LowerSet == { LowerLetters[i] : i \in 1..26 }

UpperSet == { UpperLetters[i] : i \in 1..26 }

DigitSet == { Digits[i] : i \in 1..10 }

WordCharSet == LowerSet \cup UpperSet \cup DigitSet \cup {"_"}

\* the upper-case letter of each lower-case letter, and the converse
UpperOf == [c \in LowerSet |-> UpperLetters[CHOOSE i \in 1..26 : LowerLetters[i] = c]]

LowerOf == [c \in UpperSet |-> LowerLetters[CHOOSE i \in 1..26 : UpperLetters[i] = c]]

IsLower(c) == c \in LowerSet

IsUpper(c) == c \in UpperSet

IsDigit(c) == c \in DigitSet

UpperChar(c) == IF c \in LowerSet THEN UpperOf[c] ELSE c

LowerChar(c) == IF c \in UpperSet THEN LowerOf[c] ELSE c

\* str.upper()
Upper(s) == [i \in 1..Len(s) |-> UpperChar(s[i])]

\* str.lower()
Lower(s) == [i \in 1..Len(s) |-> LowerChar(s[i])]

\* \w of the re module
IsWordChar(c) == c \in WordCharSet

\* \s of the re module, and the characters str.rstrip() removes
IsSpace(c) == c \in {" ", "\n", "\t", "\r"}

(***************************************************************************)
(* Matching primitives: substring test, \b, \s*, .*                        *)
(***************************************************************************)
\* w occurs in s starting at position i
IsAt(s, i, w) ==
    /\ i >= 1
    /\ i + Len(w) - 1 <= Len(s)
    /\ \A k \in 1..Len(w) : s[i + k - 1] = w[k]

\* `w in s`
Contains(s, w) == \E i \in 1..(Len(s) - Len(w) + 1) : IsAt(s, i, w)

WordCharAt(s, i) == i >= 1 /\ i <= Len(s) /\ IsWordChar(s[i])

\* \b holds between position i-1 and position i of s
Boundary(s, i) == WordCharAt(s, i - 1) # WordCharAt(s, i)

\* \bw\b matches s at position i
WordAt(s, i, w) == IsAt(s, i, w) /\ Boundary(s, i) /\ Boundary(s, i + Len(w))

\* re.search(r'\bw\b', s)
SearchWord(s, w) == \E i \in 1..(Len(s) - Len(w) + 1) : WordAt(s, i, w)

\* every character of s[a..b] is whitespace (the span of a \s* or \s+)
AllSpace(s, a, b) == \A k \in a..b : IsSpace(s[k])

\* no character of s[a..b] is a line break (the span of a .*)
NoNewline(s, a, b) == \A k \in a..b : s[k] # "\n"

\* re.search of x.*y in s: x, then any characters but a line break, then y
SearchDotStar(s, x, y) ==
    \E i \in 1..Len(s) :
        /\ IsAt(s, i, x)
        /\ \E j \in (i + Len(x))..Len(s) :
               /\ IsAt(s, j, y)
               /\ NoNewline(s, i + Len(x), j - 1)

\* re.search of \bx\b.*\by\b in s
SearchWordDotStarWord(s, x, y) ==
    \E i \in 1..Len(s) :
        /\ WordAt(s, i, x)
        /\ \E j \in (i + Len(x))..Len(s) :
               /\ WordAt(s, j, y)
               /\ NoNewline(s, i + Len(x), j - 1)

\* re.search of \bx\s{n,}y in s, where y is one of the strings of ys,
\* followed by \b when endBoundary
SearchWordSpaceThen(s, x, n, ys, endBoundary) ==
    \E i \in 1..Len(s) :
        /\ IsAt(s, i, x)
        /\ Boundary(s, i)
        /\ \E j \in (i + Len(x) + n)..Len(s) : \E y \in ys :
               /\ AllSpace(s, i + Len(x), j - 1)
               /\ IsAt(s, j, y)
               /\ endBoundary => Boundary(s, j + Len(y))

RECURSIVE RStripSpace(_)
\* str.rstrip()
RStripSpace(s) ==
    IF Len(s) > 0 /\ IsSpace(s[Len(s)]) THEN RStripSpace(SubSeq(s, 1, Len(s) - 1))
    ELSE s

RECURSIVE RStripChar(_, _)
\* str.rstrip(c)
RStripChar(s, c) ==
    IF Len(s) > 0 /\ s[Len(s)] = c THEN RStripChar(SubSeq(s, 1, Len(s) - 1), c)
    ELSE s

RECURSIVE IntToStr(_)
\* the decimal digits an f-string writes for a natural number
IntToStr(n) ==
    IF n < 10 THEN <<Digits[n + 1]>>
    ELSE IntToStr(n \div 10) \o <<Digits[(n % 10) + 1]>>

(***************************************************************************)
(* agent/state.py: UserContext                                             *)
(***************************************************************************)
\* Optional[T]: None is the empty set and a value x is the set {x}
None == {}

Some(x) == {x}

The(o) == CHOOSE x \in o : TRUE

(***************************************************************************)
(* agent/security.py: SecurityValidator                                    *)
(***************************************************************************)
DML_PATTERNS ==
    << <<"I","N","S","E","R","T">>,
       <<"U","P","D","A","T","E">>,
       <<"D","E","L","E","T","E">>,
       <<"D","R","O","P">>,
       <<"T","R","U","N","C","A","T","E">>,
       <<"A","L","T","E","R">>,
       <<"C","R","E","A","T","E">>,
       <<"R","E","P","L","A","C","E">>,
       <<"E","X","E","C">>,
       <<"E","X","E","C","U","T","E">> >>

OWNER_NAMES ==
    << <<"L","L","C","1">>,
       <<"L","L","C","2">>,
       <<"L","L","C","3">>,
       <<"L","L","C","4">>,
       <<"L","L","C","5">> >>

\* str(x) as an f-string writes it: the digits of an int, "None" for None
FormatValue(x) == IF x = None THEN <<"N","o","n","e">> ELSE IntToStr(The(x))

RECURSIVE LStripSpace(_)
LStripSpace(s) ==
    IF Len(s) > 0 /\ IsSpace(s[1]) THEN LStripSpace(SubSeq(s, 2, Len(s))) ELSE s

\* str.strip()
Strip(s) == LStripSpace(RStripSpace(s))

conversational_patterns ==
    << <<"h","e","l","l","o">>,
       <<"h","i">>,
       <<"h","e","y">>,
       <<"g","r","e","e","t","i","n","g","s">>,
       <<"h","o","w"," ","a","r","e"," ","y","o","u">>,
       <<"h","o","w","'","s"," ","i","t"," ","g","o","i","n","g">>,
       <<"w","h","a","t"," ","c","a","n"," ","y","o","u"," ","d","o">>,
       <<"w","h","a","t"," ","a","r","e"," ","y","o","u">>,
       <<"w","h","o"," ","a","r","e"," ","y","o","u">>,
       <<"h","e","l","p"," ","m","e">>,
       <<"e","x","p","l","a","i","n">>,
       <<"t","e","l","l"," ","m","e"," ","a","b","o","u","t"," ","y","o","u","r","s","e","l","f">>,
       <<"g","o","o","d"," ","m","o","r","n","i","n","g">>,
       <<"g","o","o","d"," ","a","f","t","e","r","n","o","o","n">>,
       <<"g","o","o","d"," ","e","v","e","n","i","n","g">>,
       <<"t","h","a","n","k"," ","y","o","u">>,
       <<"t","h","a","n","k","s">>,
       <<"b","y","e">>,
       <<"g","o","o","d","b","y","e">> >>

\* the canned capability description is_data_query returns
conversational_response ==
    "I'm a property management AI assistant specialized in analyzing your real estate data. [...] What would you like to know about your properties?"

is_data_query(question) ==
    LET query_lower == Strip(Lower(question))
    IN IF \E p \in 1..Len(conversational_patterns) :
              SearchWord(query_lower, conversational_patterns[p])
       THEN [is_data_query |-> FALSE, response |-> <<conversational_response>>]
       ELSE [is_data_query |-> TRUE, response |-> <<>>]

\* the \bword\b entries of sensitive_patterns
sensitive_patterns ==
    << <<"a","d","d","r","e","s","s">>,
       <<"t","e","n","a","n","t">>,
       <<"n","a","m","e">>,
       <<"c","o","n","t","a","c","t">>,
       <<"p","h","o","n","e">>,
       <<"e","m","a","i","l">>,
       <<"u","n","i","t"," ","n","u","m","b","e","r">> >>

\* owner_patterns of validate_query_intent, matched against query_lower
MatchesOwnerPattern(query_lower) ==
    LET one_to_six == { <<Digits[d + 1]>> : d \in 1..6 }
    IN \/ SearchWordSpaceThen(query_lower, <<"l","l","c">>, 0, one_to_six, TRUE)
       \/ SearchWordSpaceThen(query_lower, <<"o","w","n","e","r">>, 1, one_to_six, TRUE)
       \/ SearchWordSpaceThen(query_lower, <<"f","o","r">>, 1, {<<"l","l","c">>}, FALSE)
       \/ SearchWordSpaceThen(query_lower, <<"o","f">>, 1, {<<"l","l","c">>}, FALSE)
       \/ SearchWordSpaceThen(query_lower, <<"d","o","e","s">>, 1, {<<"l","l","c">>}, FALSE)
       \/ SearchWordSpaceThen(query_lower, <<"d","o">>, 1, {<<"l","l","c">>}, FALSE)

\* forbidden_terms without its 'admin' entry
forbidden_terms_without_admin ==
    << <<"a","l","l"," ","p","r","o","p","e","r","t","i","e","s">>,
       <<"t","o","t","a","l"," ","p","r","o","p","e","r","t","i","e","s">>,
       <<"e","n","t","i","r","e">>,
       <<"e","v","e","r","y"," ","p","r","o","p","e","r","t","y">>,
       <<"a","l","l"," ","o","w","n","e","r","s">>,
       <<"e","v","e","r","y","o","n","e">> >>

forbidden_terms ==
    << <<"a","l","l"," ","p","r","o","p","e","r","t","i","e","s">>,
       <<"t","o","t","a","l"," ","p","r","o","p","e","r","t","i","e","s">>,
       <<"e","n","t","i","r","e">>,
       <<"e","v","e","r","y"," ","p","r","o","p","e","r","t","y">>,
       <<"a","d","m","i","n">>,
       <<"a","l","l"," ","o","w","n","e","r","s">>,
       <<"e","v","e","r","y","o","n","e">> >>

ViewerDetailDenied ==
    <<"Access denied: Viewers can only access aggregated data (counts, averages, totals). Detailed property information is restricted to admin users.">>

ViewerOwnerDenied ==
    <<"Access denied: Viewers cannot query data for specific owners. You can only access aggregated statistics across all properties.">>

OtherOwnerDenied(owner_id) ==
    <<"Access denied: As an owner, you can only view your own properties (LLC",
      FormatValue(owner_id), "). You cannot query other owners' data.">>

ScopeDenied ==
    <<"Access denied: As an owner, you can only view your own properties. Try asking 'How many properties do I have?' instead.">>

\* the loop over OWNER_NAMES: some name matches the question and the caller's
\* own name is not a substring of the lowered question
AsksAboutOtherOwner(question, owner_id) ==
    LET query_lower == Lower(question)
        current_owner == <<"L","L","C">> \o FormatValue(owner_id)
    IN /\ \E p \in 1..Len(OWNER_NAMES) : SearchWord(Upper(question), OWNER_NAMES[p])
       /\ ~Contains(query_lower, Lower(current_owner))

\* the loop over forbidden_terms
UsesForbiddenTerm(question) ==
    \E t \in 1..Len(forbidden_terms) : Contains(Lower(question), forbidden_terms[t])

validate_query_intent(question, context) ==
    LET query_lower == Lower(question)
        Deny(msg) == [is_allowed |-> FALSE, error_msg |-> msg]
        Allow == [is_allowed |-> TRUE, error_msg |-> <<>>]
    IN IF /\ context.role = "viewer"
          /\ \/ \E p \in 1..Len(sensitive_patterns) :
                    SearchWord(query_lower, sensitive_patterns[p])
             \/ SearchWordDotStarWord(query_lower, <<"l","i","s","t">>, <<"p","r","o","p","e","r","t","i","e","s">>)
             \/ SearchWordDotStarWord(query_lower, <<"s","h","o","w">>, <<"p","r","o","p","e","r","t","i","e","s">>)
       THEN Deny(ViewerDetailDenied)
       ELSE IF context.role = "viewer" /\ MatchesOwnerPattern(query_lower)
       THEN Deny(ViewerOwnerDenied)
       ELSE IF context.role # "owner"
       THEN Allow
       ELSE IF AsksAboutOtherOwner(question, context.owner_id)
       THEN Deny(OtherOwnerDenied(context.owner_id))
       ELSE IF UsesForbiddenTerm(question)
       THEN Deny(ScopeDenied)
       ELSE Allow

\* re.search of x.*y.*z
SearchDotStar3(s, x, y, z) ==
    \E i \in 1..Len(s) :
        /\ IsAt(s, i, x)
        /\ \E j \in (i + Len(x))..Len(s) :
               /\ IsAt(s, j, y)
               /\ NoNewline(s, i + Len(x), j - 1)
               /\ \E k \in (j + Len(y))..Len(s) :
                      /\ IsAt(s, k, z)
                      /\ NoNewline(s, j + Len(y), k - 1)

\* injection_patterns of validate_query, matched against sql_upper
MatchesInjectionPattern(sql_upper) ==
    \/ \E i \in 1..Len(sql_upper) :
           /\ sql_upper[i] = ";"
           /\ \E j \in (i + 1)..Len(sql_upper) :
                  /\ AllSpace(sql_upper, i + 1, j - 1)
                  /\ IsAt(sql_upper, j, <<"D","R","O","P">>)
    \/ SearchDotStar(sql_upper, <<"-","-">>, <<"D","R","O","P">>)
    \/ SearchDotStar3(sql_upper, <<"/","*">>, <<"D","R","O","P">>, <<"*","/">>)
    \/ SearchDotStar3(sql_upper, <<"U","N","I","O","N">>, <<"S","E","L","E","C","T">>, <<"F","R","O","M">>)

\* validate_query without sql.upper() and re.IGNORECASE
validate_query_case_sensitive(sql) ==
    LET hits == { p \in 1..Len(DML_PATTERNS) : SearchWord(sql, DML_PATTERNS[p]) }
        first == CHOOSE p \in hits : \A q \in hits : p <= q
    IN IF hits # {}
       THEN [is_valid |-> FALSE,
             error_msg |-> <<"Forbidden SQL operation detected: ", DML_PATTERNS[first]>>]
       ELSE IF MatchesInjectionPattern(sql)
       THEN [is_valid |-> FALSE, error_msg |-> <<"Potential SQL injection detected">>]
       ELSE [is_valid |-> TRUE, error_msg |-> <<>>]

\* validate_query with the keywords searched as substrings, without \b
validate_query_without_word_boundary(sql) ==
    LET sql_upper == Upper(sql)
        hits == { p \in 1..Len(DML_PATTERNS) : Contains(sql_upper, DML_PATTERNS[p]) }
        first == CHOOSE p \in hits : \A q \in hits : p <= q
    IN IF hits # {}
       THEN [is_valid |-> FALSE,
             error_msg |-> <<"Forbidden SQL operation detected: ", DML_PATTERNS[first]>>]
       ELSE IF MatchesInjectionPattern(sql_upper)
       THEN [is_valid |-> FALSE, error_msg |-> <<"Potential SQL injection detected">>]
       ELSE [is_valid |-> TRUE, error_msg |-> <<>>]

validate_query(sql) ==
    LET sql_upper == Upper(sql)
        hits == { p \in 1..Len(DML_PATTERNS) : SearchWord(sql_upper, DML_PATTERNS[p]) }
        first == CHOOSE p \in hits : \A q \in hits : p <= q
    IN IF hits # {}
       THEN [is_valid |-> FALSE,
             error_msg |-> <<"Forbidden SQL operation detected: ", DML_PATTERNS[first]>>]
       ELSE IF MatchesInjectionPattern(sql_upper)
       THEN [is_valid |-> FALSE, error_msg |-> <<"Potential SQL injection detected">>]
       ELSE [is_valid |-> TRUE, error_msg |-> <<>>]

\* the last position of the run of \w characters that starts at q
WordRunEnd(s, q) ==
    CHOOSE e \in q..Len(s) :
        /\ \A k \in q..e : IsWordChar(s[k])
        /\ ~WordCharAt(s, e + 1)

\* the first position at or after p that holds no whitespace (Len(s) + 1 if none)
SkipSpace(s, p) ==
    CHOOSE q \in p..(Len(s) + 1) :
        /\ AllSpace(s, p, q - 1)
        /\ ~(q <= Len(s) /\ IsSpace(s[q]))

\* group(1) of \b(?:FROM|JOIN)\s+PROPERTIES\s+(?:AS\s+)?(\w+) matched at
\* position i with re.IGNORECASE, <<>> when there is no match at i
AliasMatchAt(s, i) ==
    LET u == Upper(s)
        afterKw == i + 4
        tbl == SkipSpace(u, afterKw)
        afterTbl == tbl + 10
        p == SkipSpace(u, afterTbl)
        q == SkipSpace(u, p + 2)
    IN IF ~( /\ Boundary(u, i)
             /\ IsAt(u, i, <<"F","R","O","M">>) \/ IsAt(u, i, <<"J","O","I","N">>)
             /\ tbl > afterKw
             /\ IsAt(u, tbl, <<"P","R","O","P","E","R","T","I","E","S">>)
             /\ p > afterTbl )
       THEN <<>>
       ELSE IF IsAt(u, p, <<"A","S">>) /\ q > p + 2 /\ WordCharAt(s, q)
       THEN SubSeq(s, q, WordRunEnd(s, q))
       ELSE IF WordCharAt(s, p)
       THEN SubSeq(s, p, WordRunEnd(s, p))
       ELSE <<>>

\* alias_match of apply_rbac: the leftmost match, <<>> for None
alias_match(sql) ==
    LET hits == { i \in 1..Len(sql) : AliasMatchAt(sql, i) # <<>> }
    IN IF hits = {} THEN <<>>
       ELSE AliasMatchAt(sql, CHOOSE i \in hits : \A j \in hits : i <= j)

terminal_clauses ==
    << <<"G","R","O","U","P"," ","B","Y">>,
       <<"O","R","D","E","R"," ","B","Y">>,
       <<"L","I","M","I","T">>,
       <<"O","F","F","S","E","T">> >>

\* the start of the leftmost match of \bw\b in s with re.IGNORECASE, 0 if none
FirstWord(s, w) ==
    LET u == Upper(s)
        hits == { i \in 1..Len(s) : WordAt(u, i, w) }
    IN IF hits = {} THEN 0 ELSE CHOOSE i \in hits : \A j \in hits : i <= j

owner_condition(table_ref, owner_id) ==
    table_ref \o <<".","o","w","n","e","r","_","i","d"," ","="," ">> \o FormatValue(owner_id)

apply_rbac(sql, context) ==
    IF context.role # "owner" \/ context.owner_id = None
    THEN sql
    ELSE
    LET stripped == RStripSpace(RStripChar(RStripSpace(sql), ";"))
        sql_upper == Upper(stripped)
        am == alias_match(stripped)
        table_ref == IF am # <<>> THEN am ELSE <<"P","r","o","p","e","r","t","i","e","s">>
        cond == owner_condition(table_ref, context.owner_id)
        where_start == FirstWord(stripped, <<"W","H","E","R","E">>)
        where_end == where_start + 4
        starts == { FirstWord(stripped, terminal_clauses[c]) :
                        c \in 1..Len(terminal_clauses) } \ {0}
        insert_pos == IF starts = {} THEN Len(stripped) + 1
                      ELSE CHOOSE i \in starts : \A j \in starts : i <= j
    IN IF ~Contains(sql_upper, <<"F","R","O","M"," ","P","R","O","P","E","R","T","I","E","S">>) /\ ~Contains(sql_upper, <<"J","O","I","N"," ","P","R","O","P","E","R","T","I","E","S">>)
       THEN stripped
       ELSE IF where_start # 0
       THEN SubSeq(stripped, 1, where_end) \o <<" ">> \o cond \o <<" ","A","N","D"," ">>
                \o SubSeq(stripped, where_end + 1, Len(stripped))
       ELSE RStripSpace(SubSeq(stripped, 1, insert_pos - 1)) \o <<" ","W","H","E","R","E"," ">> \o cond
                \o <<" ">> \o SubSeq(stripped, insert_pos, Len(stripped))

\* the end of the run of non-whitespace characters that starts at q (q - 1 if empty)
NonSpaceRunEnd(s, q) ==
    CHOOSE e \in (q - 1)..Len(s) :
        /\ \A k \in q..e : ~IsSpace(s[k])
        /\ ~(e + 1 <= Len(s) /\ ~IsSpace(s[e + 1]))

RECURSIVE SubPosixPaths(_, _)
\* re.sub(r'/[^\s]+/', '[PATH]/', error), scanning from position i
SubPosixPaths(s, i) ==
    IF i > Len(s) THEN <<>>
    ELSE LET run == NonSpaceRunEnd(s, i + 1)
             ends == { j \in (i + 2)..run : s[j] = "/" }
             last == CHOOSE j \in ends : \A k \in ends : k <= j
         IN IF s[i] = "/" /\ ends # {}
            THEN <<"[","P","A","T","H","]","/">> \o SubPosixPaths(s, last + 1)
            ELSE <<s[i]>> \o SubPosixPaths(s, i + 1)

RECURSIVE SubWindowsPaths(_, _)
\* re.sub(r'[A-Z]:\\[^\s]+', '[PATH]', error), scanning from position i
SubWindowsPaths(s, i) ==
    IF i > Len(s) THEN <<>>
    ELSE LET run == NonSpaceRunEnd(s, i + 3)
         IN IF /\ IsUpper(s[i])
               /\ IsAt(s, i + 1, <<":", "\\">>)
               /\ run >= i + 3
            THEN <<"[","P","A","T","H","]">> \o SubWindowsPaths(s, run + 1)
            ELSE <<s[i]>> \o SubWindowsPaths(s, i + 1)

sanitize_error(error) == SubWindowsPaths(SubPosixPaths(error, 1), 1)

(***************************************************************************)
(* agent/validation.py: AnswerValidator (not among the sources: modelled   *)
(* from its specification and its tests).  Numbers are in thousandths.     *)
(***************************************************************************)
Abs(x) == IF x < 0 THEN -x ELSE x

Max(a, b) == IF a >= b THEN a ELSE b

\* tolerance 0.02 as a number of thousandths
DefaultTolerance == 20

\* the absolute epsilon around zero, 0.01
ZeroEpsilon == 10

\* numbers_match with the tolerance taken relative to the first number
numbers_match_relative_to_first(a, b, tolerance) ==
    IF Max(Abs(a), Abs(b)) < ZeroEpsilon
    THEN TRUE
    ELSE Abs(a - b) * 1000 <= tolerance * Abs(a)

numbers_match(a, b, tolerance) ==
    IF Max(Abs(a), Abs(b)) < ZeroEpsilon
    THEN TRUE
    ELSE Abs(a - b) * 1000 <= tolerance * Max(Abs(a), Abs(b))

\* a cell of a result row: a number (in thousandths) or a text
Number(n) == [is_number |-> TRUE, number |-> n, text |-> ""]

Text(t) == [is_number |-> FALSE, number |-> 0, text |-> t]

\* the numeric cells of the rows, flattened
extract_sql_numbers(rows) ==
    LET RECURSIVE Flat(_)
        Flat(rs) == IF rs = <<>> THEN <<>>
                    ELSE LET nums == SelectSeq(Head(rs), LAMBDA c : c.is_number)
                         IN [i \in 1..Len(nums) |-> nums[i].number] \o Flat(Tail(rs))
    IN Flat(rows)

\* validate_answer accepting an answer as soon as one of its numbers matches
validate_answer_any_match(rows, answer, tolerance) ==
    LET answer_numbers == answer.numbers
        sql_numbers == extract_sql_numbers(rows)
        unmatched == SelectSeq(answer_numbers,
                         LAMBDA n : ~\E j \in 1..Len(sql_numbers) :
                                        numbers_match(n, sql_numbers[j], tolerance))
    IN IF answer_numbers = <<>> \/ Len(unmatched) < Len(answer_numbers)
       THEN [is_valid |-> TRUE, warning |-> None, confidence |-> 1000]
       ELSE [is_valid |-> FALSE, warning |-> Some(unmatched), confidence |-> 300]

\* validate_answer with one confidence for every answer it rejects
validate_answer_flat_confidence(rows, answer, tolerance) ==
    LET answer_numbers == answer.numbers
        sql_numbers == extract_sql_numbers(rows)
        unmatched == SelectSeq(answer_numbers,
                         LAMBDA n : ~\E j \in 1..Len(sql_numbers) :
                                        numbers_match(n, sql_numbers[j], tolerance))
    IN IF unmatched = <<>>
       THEN [is_valid |-> TRUE, warning |-> None, confidence |-> 1000]
       ELSE [is_valid |-> FALSE, warning |-> Some(unmatched), confidence |-> 300]

validate_answer(rows, answer, tolerance) ==
    LET answer_numbers == answer.numbers
        sql_numbers == extract_sql_numbers(rows)
        Matched(i) == \E j \in 1..Len(sql_numbers) :
                          numbers_match(answer_numbers[i], sql_numbers[j], tolerance)
        unmatched == SelectSeq(answer_numbers,
                         LAMBDA n : ~\E j \in 1..Len(sql_numbers) :
                                        numbers_match(n, sql_numbers[j], tolerance))
        n_matched == Cardinality({ i \in 1..Len(answer_numbers) : Matched(i) })
    IN IF answer_numbers = <<>>
       THEN [is_valid |-> TRUE, warning |-> None, confidence |-> 1000]
       ELSE IF unmatched = <<>>
       THEN [is_valid |-> TRUE, warning |-> None, confidence |-> 1000]
       ELSE IF sql_numbers = <<>>
       THEN [is_valid |-> FALSE, warning |-> Some(unmatched), confidence |-> 300]
       ELSE [is_valid |-> FALSE, warning |-> Some(unmatched),
             confidence |-> 300 + (700 * n_matched) \div Len(answer_numbers)]

\* format_validated_answer annotating every answer, the fully validated ones too
format_validated_answer_always_annotated(answer, is_valid, warning, confidence, raw_result) ==
    <<answer.text,
      IF confidence >= 800 THEN "HIGH" ELSE IF confidence >= 500 THEN "MEDIUM" ELSE "LOW",
      IF is_valid THEN None ELSE warning,
      raw_result>>

format_validated_answer(answer, is_valid, warning, confidence, raw_result) ==
    IF is_valid /\ confidence = 1000
    THEN <<answer.text>>
    ELSE <<answer.text,
           IF confidence >= 800 THEN "HIGH" ELSE IF confidence >= 500 THEN "MEDIUM" ELSE "LOW",
           IF is_valid THEN None ELSE warning,
           raw_result>>

(***************************************************************************)
(* agent/memory.py: ConversationMemory.  A context dictionary is a         *)
(* function from the keys it holds to their values; the timestamp of a     *)
(* turn, which no method reads, is left out.                               *)
(***************************************************************************)
\* STATE_ALIASES, in the order of the dictionary
STATE_ALIASES ==
    << <<<<"c","a","l","i","f","o","r","n","i","a">>, "California">>, <<<<"c","a">>, "California">>, <<<<"c","a","l","i">>, "California">>,
       <<<<"t","e","x","a","s">>, "Texas">>, <<<<"t","x">>, "Texas">>,
       <<<<"a","r","i","z","o","n","a">>, "Arizona">>, <<<<"a","z">>, "Arizona">>, <<<<"a","r","i","z">>, "Arizona">>,
       <<<<"f","l","o","r","i","d","a">>, "Florida">>, <<<<"f","l">>, "Florida">>,
       <<<<"n","e","w"," ","y","o","r","k">>, "New York">>, <<<<"n","y">>, "New York">>,
       <<<<"i","l","l","i","n","o","i","s">>, "Illinois">>, <<<<"i","l">>, "Illinois">> >>

PROPERTY_TYPES ==
    << <<"S","i","n","g","l","e"," ","F","a","m","i","l","y">>, <<"M","u","l","t","i","-","F","a","m","i","l","y">>, <<"C","o","m","m","e","r","c","i","a","l">>, <<"R","e","s","i","d","e","n","t","i","a","l">>, <<"A","p","a","r","t","m","e","n","t">>,
       <<"C","o","n","d","o">> >>

\* any(word in text for word in words)
ContainsAnyWord(text, words) == \E word \in words : Contains(text, word)

\* the last position of the run of digits that starts at q (q - 1 if empty)
DigitRunEnd(s, q) ==
    CHOOSE e \in (q - 1)..Len(s) :
        /\ \A k \in q..e : IsDigit(s[k])
        /\ ~(e + 1 <= Len(s) /\ IsDigit(s[e + 1]))

\* group(1).upper() of re.search(r'\b(LLC\d+)\b', query, re.IGNORECASE), <<>> for None
owner_match(query) ==
    LET u == Upper(query)
        hits == { i \in 1..Len(u) :
                      /\ IsAt(u, i, <<"L","L","C">>)
                      /\ Boundary(u, i)
                      /\ DigitRunEnd(u, i + 3) >= i + 3
                      /\ Boundary(u, DigitRunEnd(u, i + 3) + 1) }
        first == CHOOSE i \in hits : \A j \in hits : i <= j
    IN IF hits = {} THEN <<>> ELSE SubSeq(u, first, DigitRunEnd(u, first + 3))

\* _extract_context
extract_context(query, sql) ==
    LET combined_text == Lower(query \o <<" ">> \o sql)
        aliases == { a \in 1..Len(STATE_ALIASES) : SearchWord(combined_text, STATE_ALIASES[a][1]) }
        types == { t \in 1..Len(PROPERTY_TYPES) : Contains(combined_text, Lower(PROPERTY_TYPES[t])) }
        topic ==
            IF ContainsAnyWord(combined_text, {<<"r","e","n","t">>, <<"r","e","n","t","a","l">>, <<"i","n","c","o","m","e">>, <<"a","v","e","r","a","g","e">>})
            THEN Some("rent")
            ELSE IF ContainsAnyWord(combined_text, {<<"p","r","o","f","i","t">>, <<"p","r","o","f","i","t","a","b","l","e">>, <<"p","r","o","f","i","t","a","b","i","l","i","t","y">>})
            THEN Some("profitability")
            ELSE IF ContainsAnyWord(combined_text, {<<"c","o","u","n","t">>, <<"h","o","w"," ","m","a","n","y">>, <<"n","u","m","b","e","r"," ","o","f">>})
            THEN Some("count")
            ELSE IF ContainsAnyWord(combined_text, {<<"p","r","o","p","e","r","t","y">>, <<"p","r","o","p","e","r","t","i","e","s">>})
            THEN Some("properties")
            ELSE None
        owner == owner_match(query)
        keys == (IF aliases # {} THEN {"location"} ELSE {})
                    \cup (IF types # {} THEN {"property_type"} ELSE {})
                    \cup (IF topic # None THEN {"topic"} ELSE {})
                    \cup (IF owner # <<>> THEN {"owner"} ELSE {})
    IN [k \in keys |->
           CASE k = "location" ->
                    STATE_ALIASES[CHOOSE a \in aliases : \A b \in aliases : a <= b][2]
             [] k = "property_type" ->
                    PROPERTY_TYPES[CHOOSE t \in types : \A v \in types : t <= v]
             [] k = "topic" -> The(topic)
             [] k = "owner" -> owner]

\* the empty dictionary
EmptyContext == [k \in {} |-> ""]

\* dict.update
DictUpdate(d, e) ==
    [k \in (DOMAIN d) \cup (DOMAIN e) |-> IF k \in DOMAIN e THEN e[k] ELSE d[k]]

\* the ConversationTurn add_interaction creates, context being what
\* _extract_context(query, sql_query or "") returns
ConversationTurn(query, sql_query, result, answer, context) ==
    [query |-> query,
     sql_query |-> sql_query,
     result |-> result,
     answer |-> answer,
     context |-> context]

\* add_interaction never evicting a turn
history_after_add_without_eviction(turns, turn, limit) == Append(turns, turn)

\* self.history after add_interaction has appended the turn and popped the
\* oldest one when the list is longer than max_history
history_after_add(turns, turn, limit) ==
    LET appended == Append(turns, turn)
    IN IF Len(appended) > limit THEN Tail(appended) ELSE appended

\* _update_context: the contexts of the last three turns, merged in order
update_context(turns) ==
    LET n == Len(turns)
        Ctx(i) == IF i >= 1 THEN turns[i].context ELSE EmptyContext
    IN IF n = 0 THEN EmptyContext
       ELSE DictUpdate(DictUpdate(Ctx(n - 2), Ctx(n - 1)), Ctx(n))

(***************************************************************************)
(* The collaborators' behaviours: what the text generator, the executor    *)
(* and the caller can supply                                               *)
(***************************************************************************)
\* response.content of the SQL generation call
GeneratorOutputs ==
    { <<"S","E","L","E","C","T"," ","C","O","U","N","T","(","*",")"," ","F","R","O","M"," ","P","r","o","p","e","r","t","i","e","s"," ","A","S"," ","p",";">>,
      <<"S","E","L","E","C","T"," ","*"," ","F","R","O","M"," ","P","r","o","p","e","r","t","i","e","s"," ","W","H","E","R","E"," ","i","s","_","a","c","t","i","v","e"," ","="," ","1">>,
      <<"S","E","L","E","C","T"," ","*"," ","F","R","O","M"," "," ","P","r","o","p","e","r","t","i","e","s"," ","p">>,
      <<"S","E","L","E","C","T"," ","C","O","U","N","T","(","*",")"," ","F","R","O","M"," ","U","n","i","t","s">>,
      <<"BACKTICK","BACKTICK","BACKTICK","s","q","l","\n","S","E","L","E","C","T"," ","c","i","t","y"," ","F","R","O","M"," ","P","r","o","p","e","r","t","i","e","s"," ","p"," ","L","I","M","I","T"," ","5","\n","BACKTICK","BACKTICK","BACKTICK">>,
      <<"I","N","S","E","R","T"," ","I","N","T","O"," ","P","r","o","p","e","r","t","i","e","s"," ","V","A","L","U","E","S"," ","(","1",")">>,
      <<"d","e","l","e","t","e"," ","f","r","o","m"," ","P","r","o","p","e","r","t","i","e","s"," ","w","h","e","r","e"," ","p","r","o","p","e","r","t","y","_","i","d"," ","="," ","1">>,
      <<"S","E","L","E","C","T"," ","*"," ","F","R","O","M"," ","x",";"," ","D","R","O","P"," ","T","A","B","L","E"," ","y">> }

\* the error text execute_query returns with success = False
ExecutionErrors ==
    { <<"n","o"," ","s","u","c","h"," ","c","o","l","u","m","n",":"," ","p",".","r","e","n","t">>,
      <<"u","n","a","b","l","e"," ","t","o"," ","o","p","e","n"," ","/","h","o","m","e","/","a","p","p","/","d","a","t","a","/","p","m",".","d","b">> }

\* str(e) of an exception raised under query()
UpstreamErrors ==
    { <<"4","2","9"," ","R","E","S","O","U","R","C","E","_","E","X","H","A","U","S","T","E","D">>,
      <<"I","n","v","a","l","i","d"," ","A","P","I","_","K","E","Y">>,
      <<"C","o","n","n","e","c","t","i","o","n"," ","r","e","s","e","t">>,
      <<"s","q","l","i","t","e"," ","f","i","l","e"," ","m","i","s","s","i","n","g">>,
      <<"b","o","o","m">>,
      <<"u","n","a","b","l","e"," ","t","o"," ","o","p","e","n"," ","d","a","t","a","b","a","s","e"," ","f","i","l","e"," ","/","s","r","v","/","a","p","p","/","p","m",".","d","b">> }

\* the rows execute_query returns with success = True (numeric cells in thousandths)
ResultSets == { <<>>, << <<Number(12000)>> >>, << <<Text("AZ")>> >> }

\* response.content of the answer generation call, with the numbers it states
Answers ==
    { [text |-> "You have 12 properties.", numbers |-> <<12000>>],
      [text |-> "You have 15 properties.", numbers |-> <<15000>>],
      [text |-> "Here are your properties:", numbers |-> <<>>] }

QueryTexts ==
    { <<"h","e","l","l","o">>,
      <<"H","o","w"," ","m","a","n","y"," ","p","r","o","p","e","r","t","i","e","s"," ","d","o"," ","I"," ","h","a","v","e","?">>,
      <<"H","o","w"," ","m","a","n","y"," ","p","r","o","p","e","r","t","i","e","s"," ","d","o","e","s"," ","L","L","C","3"," ","h","a","v","e","?">>,
      <<"l","i","s","t"," ","a","l","l"," ","p","r","o","p","e","r","t","i","e","s">> }

UserContexts ==
    { [user_id |-> 999, role |-> "admin", owner_id |-> None],
      [user_id |-> 998, role |-> "viewer", owner_id |-> None],
      [user_id |-> 1, role |-> "owner", owner_id |-> Some(1)],
      [user_id |-> 2, role |-> "owner", owner_id |-> Some(2)] }

(***************************************************************************)
(* agent/graph.py: PropertyManagementAgent                                 *)
(***************************************************************************)
VARIABLES
    user_query,         \* the question passed to query()
    user_context,       \* the UserContext passed to query()
    max_retries,        \* self.max_retries
    debug_mode,         \* whether DEBUG_MODE is "true" in the environment
    pc,                 \* the graph node about to run, "END" once query() has returned
    sql_query,          \* state["sql_query"]
    sql_result,         \* state["sql_result"]
    final_answer,       \* state["final_answer"]
    retry_count,        \* state["retry_count"]
    error_log,          \* state["error_log"]
    validation_passed,  \* state["validation_passed"]
    confidence_score,   \* state["confidence_score"], in thousandths
    terminal,           \* how the call ended: BLOCKED, DONE, FAILED or UPSTREAM
    response,           \* the dictionary query() returns
    sql_calls,          \* number of llm.invoke calls issued for SQL
    answer_calls,       \* number of llm.invoke calls issued for the answer
    executed,           \* the SQL string handed to db_manager.execute_query last, if any
    execute_calls,      \* the number of db_manager.execute_query calls
    auth_query,         \* a question handed to the AccessScopeValidator on its own
    auth_context,       \* the UserContext handed with it
    auth_result,        \* what validate_query_intent returned for them
    intent_result,      \* what is_data_query returned for auth_query
    check_sql,          \* a SQL string handed to validate_query on its own
    check_result,       \* what validate_query returned for it
    val_rows,           \* result rows handed to validate_answer on its own
    val_answer,         \* the answer handed with them
    val_tolerance,      \* the tolerance handed with them, in thousandths
    val_result,         \* what validate_answer returned for them
    match_a,            \* the first number handed to numbers_match on its own
    match_b,            \* the second number
    match_tolerance,    \* the tolerance, in thousandths
    match_result,       \* what numbers_match returned for them
    rbac_sql,           \* a SQL string handed to apply_rbac on its own
    rbac_context,       \* the UserContext handed with it
    rbac_result,        \* what apply_rbac returned for them
    max_history,        \* memory.max_history
    history,            \* memory.history
    current_context,    \* memory.current_context
    interactions,       \* every turn add_interaction has made since the last clear_history
    memory_call         \* the method of the memory that ran last

vars == <<user_query, user_context, max_retries, debug_mode, pc, sql_query, sql_result,
          final_answer, retry_count, error_log, validation_passed, confidence_score,
          terminal, response, sql_calls, answer_calls, executed, execute_calls,
          auth_query, auth_context, auth_result, intent_result,
          check_sql, check_result, val_rows, val_answer, val_tolerance, val_result,
          match_a, match_b, match_tolerance, match_result,
          rbac_sql, rbac_context, rbac_result,
          max_history, history, current_context, interactions, memory_call>>

\* the variables of validate_query, validate_answer and numbers_match on their own
sql_check_vars == <<check_sql, check_result>>

answer_check_vars == <<val_rows, val_answer, val_tolerance, val_result>>

match_vars == <<match_a, match_b, match_tolerance, match_result>>

\* the variables of apply_rbac on its own
rbac_vars == <<rbac_sql, rbac_context, rbac_result>>

\* the ConversationMemory of the agent
memory_vars == <<max_history, history, current_context, interactions, memory_call>>

\* what no step of a query call changes
inputs == <<user_query, user_context, max_retries, debug_mode,
            auth_query, auth_context, auth_result, intent_result,
            sql_check_vars, answer_check_vars, match_vars, rbac_vars>>

\* nothing has been handed to validate_query, validate_answer or numbers_match
NoSqlCheck == check_sql = <<>> /\ check_result = None

NoAnswerCheck ==
    /\ val_rows = <<>>
    /\ val_answer = [text |-> "", numbers |-> <<>>]
    /\ val_tolerance = DefaultTolerance
    /\ val_result = None

NoMatch ==
    /\ match_a = 0
    /\ match_b = 0
    /\ match_tolerance = DefaultTolerance
    /\ match_result = None

\* nothing has been handed to apply_rbac
NoRbacCheck ==
    /\ rbac_sql = <<>>
    /\ rbac_context = [user_id |-> 999, role |-> "admin", owner_id |-> None]
    /\ rbac_result = None

\* self.memory = ConversationMemory(max_history=10)
AgentMaxHistory == 10

\* ConversationMemory(max_history=limit) as __init__ leaves it
FreshMemory(limit) ==
    /\ max_history = limit
    /\ history = <<>>
    /\ current_context = EmptyContext
    /\ interactions = <<>>
    /\ memory_call = "__init__"

\* the literal heads of the three f-strings appended to error_log
AuthorizationPrefix == "Authorization error: "

SecurityPrefix == "Security validation failed: "

ExecutionPrefix == "SQL execution error: "

\* entry.startswith("Security validation"): an entry is <<head, message>>
StartsWithSecurityValidation(entry) == entry[1] = SecurityPrefix

FallbackAnswer ==
    <<"I apologize, but I couldn't generate an answer. Please try rephrasing your question.">>

\* truth value of an Optional[str]: None and "" are false
Truthy(answer) == answer # None /\ The(answer) # <<>> /\ The(answer) # <<"">>

RECURSIVE Remove(_, _)
\* s.replace(w, "")
Remove(s, w) ==
    IF s = <<>> THEN <<>>
    ELSE IF IsAt(s, 1, w) THEN Remove(SubSeq(s, Len(w) + 1, Len(s)), w)
    ELSE <<Head(s)>> \o Remove(Tail(s), w)

\* response.content.strip() with the markdown fences removed
CleanSql(content) ==
    Strip(Remove(Remove(Strip(content), <<"BACKTICK","BACKTICK","BACKTICK","s","q","l">>), <<"BACKTICK","BACKTICK","BACKTICK">>))

\* is_data_query, validate_query_intent, CleanSql, validate_query and apply_rbac
\* tabulated over the questions, the callers and the statements the generator
\* can return
intent_check == [question \in QueryTexts |-> is_data_query(question)]

authorization ==
    [question \in QueryTexts, context \in UserContexts |->
        validate_query_intent(question, context)]

cleaned_sql == [content \in GeneratorOutputs |-> CleanSql(content)]

CleanedOutputs == { cleaned_sql[content] : content \in GeneratorOutputs }

security_verdict == [sql \in CleanedOutputs |-> validate_query(sql)]

scoped_sql == [sql \in CleanedOutputs, context \in UserContexts |-> apply_rbac(sql, context)]

\* state["sql_query"] when the graph reaches END
FinalSqls ==
    {None} \cup { Some(sql) : sql \in CleanedOutputs }
           \cup { Some(scoped_sql[sql, context]) : sql \in CleanedOutputs, context \in UserContexts }

\* context = self._extract_context(query, sql_query or ""), tabulated
turn_context ==
    [question \in QueryTexts, sql \in FinalSqls |->
        extract_context(question, IF sql = None THEN <<>> ELSE The(sql))]

\* _sql_generation_router never taking the "blocked" edge
sql_generation_router_never_blocks(answer) == "validate"

sql_generation_router(answer) == IF Truthy(answer) THEN "blocked" ELSE "validate"

\* _validation_router never taking the "error" edge
validation_router_always_execute(log) == "execute"

validation_router(log) ==
    IF log # <<>> /\ StartsWithSecurityValidation(log[Len(log)]) THEN "error" ELSE "execute"

execution_router(result) == IF result # None THEN "success" ELSE "error"

\* _error_router never taking the "fail" edge
error_router_always_retry(count, limit) == "retry"

error_router(count, limit) == IF count < limit THEN "retry" ELSE "fail"

\* the response dictionary with success telling whether a statement was generated
Response_success_for_statement(answer, sql, count, log, passed, confidence) ==
    [success |-> sql # None,
     answer |-> IF Truthy(answer) THEN The(answer) ELSE FallbackAnswer,
     sql_query |-> sql,
     retry_count |-> count,
     errors |-> log,
     validation_passed |-> passed,
     confidence |-> confidence,
     error_type |-> None,
     technical_details |-> None]

\* the response dictionary query() builds from the final state
Response(answer, sql, count, log, passed, confidence) ==
    [success |-> answer # None,
     answer |-> IF Truthy(answer) THEN The(answer) ELSE FallbackAnswer,
     sql_query |-> sql,
     retry_count |-> count,
     errors |-> log,
     validation_passed |-> passed,
     confidence |-> confidence,
     error_type |-> None,
     technical_details |-> None]

\* the category and the friendly message _handle_query_error picks
ErrorCategory(error_msg) ==
    LET lower == Lower(error_msg)
    IN IF \/ Contains(error_msg, <<"R","E","S","O","U","R","C","E","_","E","X","H","A","U","S","T","E","D">>)
          \/ Contains(error_msg, <<"4","2","9">>)
          \/ Contains(lower, <<"q","u","o","t","a">>)
       THEN "API_QUOTA"
       ELSE IF \/ Contains(error_msg, <<"A","P","I","_","K","E","Y">>)
               \/ Contains(lower, <<"a","u","t","h","e","n","t","i","c","a","t","i","o","n">>)
               \/ Contains(error_msg, <<"4","0","1">>)
       THEN "API_AUTH"
       ELSE IF Contains(lower, <<"c","o","n","n","e","c","t","i","o","n">>) \/ Contains(lower, <<"t","i","m","e","o","u","t">>)
       THEN "NETWORK"
       ELSE IF Contains(lower, <<"d","a","t","a","b","a","s","e">>) \/ Contains(lower, <<"s","q","l","i","t","e">>)
       THEN "DATABASE"
       ELSE "GENERAL"

FriendlyMessage(error_type) ==
    CASE error_type = "API_QUOTA" ->
           <<"I've reached my API usage limit. Please try again in a minute or contact your administrator for a higher quota tier.">>
      [] error_type = "API_AUTH" ->
           <<"I'm having trouble connecting to my AI service. Please contact your administrator to verify the API key configuration.">>
      [] error_type = "NETWORK" ->
           <<"I'm having trouble connecting to my AI service. Please check your internet connection and try again in a moment.">>
      [] error_type = "DATABASE" ->
           <<"I'm having trouble accessing the database. Please ensure the database file exists.">>
      [] OTHER ->
           <<"I encountered an unexpected error while processing your question. Please try rephrasing or contact your administrator.">>

\* _handle_query_error returning the error text whatever DEBUG_MODE is
handle_query_error_always_technical(error_msg, debug) ==
    LET error_type == ErrorCategory(error_msg)
    IN [success |-> FALSE,
        answer |-> FriendlyMessage(error_type),
        sql_query |-> None,
        retry_count |-> 0,
        errors |-> <<error_type>>,
        validation_passed |-> TRUE,
        confidence |-> 0,
        error_type |-> Some(error_type),
        technical_details |-> Some(error_msg)]

\* _handle_query_error reporting the retry count, the statement and the error
\* log the call had reached
handle_query_error_keeping_state(error_msg, debug) ==
    LET error_type == ErrorCategory(error_msg)
    IN [success |-> FALSE,
        answer |-> FriendlyMessage(error_type),
        sql_query |-> sql_query,
        retry_count |-> retry_count,
        errors |-> Append(error_log, error_type),
        validation_passed |-> TRUE,
        confidence |-> 0,
        error_type |-> Some(error_type),
        technical_details |-> IF debug THEN Some(error_msg) ELSE None]

handle_query_error(error_msg, debug) ==
    LET error_type == ErrorCategory(error_msg)
    IN [success |-> FALSE,
        answer |-> FriendlyMessage(error_type),
        sql_query |-> None,
        retry_count |-> 0,
        errors |-> <<error_type>>,
        validation_passed |-> TRUE,
        confidence |-> 0,
        error_type |-> Some(error_type),
        technical_details |-> IF debug THEN Some(error_msg) ELSE None]

\* query(): the initial state handed to the graph, whose entry point is generate_sql
Init ==
    /\ user_query \in QueryTexts
    /\ user_context \in UserContexts
    /\ max_retries \in 0..MaxRetriesBound
    /\ debug_mode \in BOOLEAN
    /\ pc = "generate_sql"
    /\ sql_query = None
    /\ sql_result = None
    /\ final_answer = None
    /\ retry_count = 0
    /\ error_log = <<>>
    /\ validation_passed = TRUE
    /\ confidence_score = 1000
    /\ terminal = "none"
    /\ response = None
    /\ sql_calls = 0
    /\ answer_calls = 0
    /\ executed = None
    /\ execute_calls = 0
    /\ NoRbacCheck
    /\ FreshMemory(AgentMaxHistory)
    /\ auth_query = <<>>
    /\ auth_context = [user_id |-> 999, role |-> "admin", owner_id |-> None]
    /\ auth_result = None
    /\ intent_result = None
    /\ NoSqlCheck
    /\ NoAnswerCheck
    /\ NoMatch

\* the graph reaches END and query() returns the response built from the final state
\* (after self.memory.add_interaction has saved the turn)
Finish(outcome, answer, sql, count, log, passed, confidence) ==
    /\ pc' = "END"
    /\ terminal' = outcome
    /\ \E turn \in {ConversationTurn(user_query, sql, sql_result,
                                     IF Truthy(answer) THEN The(answer) ELSE <<>>,
                                     turn_context[user_query, sql])} :
           /\ history' = history_after_add(history, turn, max_history)
           /\ interactions' = Append(interactions, turn)
    /\ current_context' = update_context(history')
    /\ max_history' = max_history
    /\ memory_call' = "add_interaction"
    /\ response' = Some(Response(answer, sql, count, log, passed, confidence))

\* an exception leaves the graph and query() returns _handle_query_error's result
Raise(error_msg) ==
    /\ pc' = "END"
    /\ terminal' = "UPSTREAM"
    /\ response' = Some(handle_query_error(error_msg, debug_mode))
    /\ UNCHANGED memory_vars

\* whether _generate_sql_node reaches llm.invoke
ReachesSqlGenerator ==
    /\ retry_count = 0 => intent_check[user_query].is_data_query
    /\ authorization[user_query, user_context].is_allowed

\* _generate_sql_node and _sql_generation_router, llm.invoke returning
generate_sql_node ==
    /\ pc = "generate_sql"
    /\ LET intent == intent_check[user_query]
           auth == authorization[user_query, user_context]
       IN IF retry_count = 0 /\ ~intent.is_data_query
          THEN /\ final_answer' = Some(intent.response)
               /\ UNCHANGED <<sql_query, error_log, sql_calls>>
          ELSE IF ~auth.is_allowed
          THEN /\ final_answer' = Some(auth.error_msg)
               /\ error_log' = Append(error_log, <<AuthorizationPrefix, auth.error_msg>>)
               /\ UNCHANGED <<sql_query, sql_calls>>
          ELSE /\ \E content \in GeneratorOutputs : sql_query' = Some(cleaned_sql[content])
               /\ sql_calls' = sql_calls + 1
               /\ UNCHANGED <<final_answer, error_log>>
    /\ IF sql_generation_router(final_answer') = "blocked"
       THEN Finish("BLOCKED", final_answer', sql_query', retry_count, error_log',
                   validation_passed, confidence_score)
       ELSE /\ pc' = "validate_sql"
            /\ UNCHANGED <<terminal, response, memory_vars>>
    /\ UNCHANGED <<inputs, sql_result, retry_count, validation_passed, confidence_score,
                   answer_calls, executed, execute_calls>>

\* _generate_sql_node, llm.invoke raising
generate_sql_raises ==
    /\ pc = "generate_sql"
    /\ ReachesSqlGenerator
    /\ sql_calls' = sql_calls + 1
    /\ \E error_msg \in UpstreamErrors : Raise(error_msg)
    /\ UNCHANGED <<inputs, sql_query, sql_result, final_answer, retry_count, error_log,
                   validation_passed, confidence_score, answer_calls, executed, execute_calls>>

\* _validate_sql_node and _validation_router
validate_sql_node ==
    /\ pc = "validate_sql"
    /\ LET check == security_verdict[The(sql_query)]
       IN IF ~check.is_valid
          THEN /\ error_log' = Append(error_log, <<SecurityPrefix, check.error_msg>>)
               /\ UNCHANGED sql_query
          ELSE /\ sql_query' = Some(scoped_sql[The(sql_query), user_context])
               /\ UNCHANGED error_log
    /\ pc' = IF validation_router(error_log') = "error" THEN "handle_error" ELSE "execute_sql"
    /\ UNCHANGED <<inputs, sql_result, final_answer, retry_count, validation_passed,
                   confidence_score, terminal, response, memory_vars, sql_calls, answer_calls, executed,
                   execute_calls>>

\* _execute_sql_node and _execution_router
execute_sql_node ==
    /\ pc = "execute_sql"
    /\ executed' = sql_query
    /\ execute_calls' = execute_calls + 1
    /\ \/ \E rows \in ResultSets :
              /\ sql_result' = Some(rows)
              /\ UNCHANGED error_log
       \/ \E error \in ExecutionErrors :
              /\ error_log' = Append(error_log, <<ExecutionPrefix, sanitize_error(error)>>)
              /\ UNCHANGED sql_result
    /\ pc' = IF execution_router(sql_result') = "success" THEN "generate_answer"
             ELSE "handle_error"
    /\ UNCHANGED <<inputs, sql_query, final_answer, retry_count, validation_passed,
                   confidence_score, terminal, response, memory_vars, sql_calls, answer_calls>>

\* _handle_error_node and _error_router
handle_error_node ==
    /\ pc = "handle_error"
    /\ retry_count < RetryCap
    /\ retry_count' = retry_count + 1
    /\ IF error_router(retry_count', max_retries) = "retry"
       THEN /\ pc' = "generate_sql"
            /\ UNCHANGED <<terminal, response, memory_vars>>
       ELSE Finish("FAILED", final_answer, sql_query, retry_count', error_log,
                   validation_passed, confidence_score)
    /\ UNCHANGED <<inputs, sql_query, sql_result, final_answer, error_log,
                   validation_passed, confidence_score, sql_calls, answer_calls, executed, execute_calls>>

\* _generate_answer_node, llm.invoke returning
generate_answer_node ==
    /\ pc = "generate_answer"
    /\ answer_calls' = answer_calls + 1
    /\ \E llm_answer \in Answers :
         LET sql_result_list == The(sql_result)
             check == validate_answer(sql_result_list, llm_answer, DefaultTolerance)
             validated_answer ==
                 format_validated_answer(llm_answer, check.is_valid, check.warning,
                     check.confidence,
                     IF ~check.is_valid THEN Some(sql_result_list) ELSE None)
         IN /\ final_answer' = Some(validated_answer)
            /\ validation_passed' = check.is_valid
            /\ confidence_score' = check.confidence
    /\ Finish("DONE", final_answer', sql_query, retry_count, error_log,
              validation_passed', confidence_score')
    /\ UNCHANGED <<inputs, sql_query, sql_result, retry_count, error_log, sql_calls, executed, execute_calls>>

\* _generate_answer_node, llm.invoke raising
generate_answer_raises ==
    /\ pc = "generate_answer"
    /\ answer_calls' = answer_calls + 1
    /\ \E error_msg \in UpstreamErrors : Raise(error_msg)
    /\ UNCHANGED <<inputs, sql_query, sql_result, final_answer, retry_count, error_log,
                   validation_passed, confidence_score, sql_calls, executed, execute_calls>>

Next ==
    \/ generate_sql_node
    \/ generate_sql_raises
    \/ validate_sql_node
    \/ execute_sql_node
    \/ handle_error_node
    \/ generate_answer_node
    \/ generate_answer_raises

Spec == Init /\ [][Next]_vars

\* the call is sequential code: a step that can be taken is taken
FairSpec == Spec /\ WF_vars(Next)

(***************************************************************************)
(* The AccessScopeValidator on its own: is_data_query and                  *)
(* validate_query_intent applied to one question and one UserContext       *)
(***************************************************************************)
AuthTexts ==
    { <<"h","e","l","l","o">>,
      <<"H","o","w"," ","m","a","n","y"," ","p","r","o","p","e","r","t","i","e","s"," ","d","o"," ","I"," ","h","a","v","e","?">>,
      <<"H","o","w"," ","m","a","n","y"," ","p","r","o","p","e","r","t","i","e","s"," ","d","o","e","s"," ","L","L","C","3"," ","h","a","v","e","?">>,
      <<"l","i","s","t"," ","a","l","l"," ","p","r","o","p","e","r","t","i","e","s">>,
      <<"H","o","w"," ","m","a","n","y"," ","p","r","o","p","e","r","t","i","e","s"," ","d","o","e","s"," ","L","L","C","2"," ","h","a","v","e","?">>,
      <<"C","o","m","p","a","r","e"," ","L","L","C","2"," ","a","n","d"," ","L","L","C","3">>,
      <<"s","h","o","w"," ","l","l","c","1"," ","p","r","o","p","e","r","t","i","e","s">>,
      <<"L","L","C","6"," ","r","e","n","t">>,
      <<"L","L","C","1","2"," ","r","e","n","t">>,
      <<"L","L","C"," ","3"," ","r","e","n","t">>,
      <<"r","e","n","t"," ","o","f"," ","o","w","n","e","r"," ","3">>,
      <<"W","h","a","t"," ","i","s"," ","m","y"," ","t","o","t","a","l"," ","r","e","n","t","?">>,
      <<"t","o","t","a","l"," ","p","r","o","p","e","r","t","i","e","s"," ","i","n"," ","A","Z">>,
      <<"e","v","e","r","y"," ","p","r","o","p","e","r","t","y"," ","I"," ","o","w","n">>,
      <<"a","l","l"," ","o","w","n","e","r","s">>,
      <<"t","h","e"," ","e","n","t","i","r","e"," ","p","o","r","t","f","o","l","i","o">>,
      <<"E","v","e","r","y","o","n","e"," ","p","a","y","s">>,
      <<"c","o","n","t","a","c","t"," ","t","h","e"," ","a","d","m","i","n">>,
      <<"W","h","a","t"," ","i","s"," ","t","h","e"," ","a","v","e","r","a","g","e"," ","r","e","n","t","?">>,
      <<"t","e","n","a","n","t"," ","e","m","a","i","l">>,
      <<"r","e","n","t"," ","o","f"," ","L","L","C"," ","h","o","l","d","i","n","g","s">>,
      <<"S","h","o","w"," ","m","e"," ","p","r","o","p","e","r","t","i","e","s"," ","i","n"," ","A","r","i","z","o","n","a">>,
      <<" "," ","T","h","a","n","k","s"," "," ">>,
      <<"u","n","i","t"," ","n","u","m","b","e","r"," ","5">>,
      <<"r","e","n","t"," ","f","o","r"," "," ","l","l","c","4">>,
      <<"n","a","m","e","d">>,
      <<"l","i","s","t"," ","m","y","\n","p","r","o","p","e","r","t","i","e","s">>,
      <<"S","h","o","w"," ","t","h","e"," ","t","e","n","a","n","t","s"," ","e","m","a","i","l","s">> }

AuthContexts ==
    UserContexts \cup
    { [user_id |-> 3, role |-> "owner", owner_id |-> Some(3)],
      [user_id |-> 4, role |-> "owner", owner_id |-> None],
      [user_id |-> 12, role |-> "owner", owner_id |-> Some(12)] }

InitAuth ==
    /\ auth_query \in AuthTexts
    /\ auth_context \in AuthContexts
    /\ auth_result = None
    /\ intent_result = None
    /\ user_query = <<>>
    /\ user_context = [user_id |-> 999, role |-> "admin", owner_id |-> None]
    /\ max_retries = 0
    /\ debug_mode = FALSE
    /\ pc = "idle"
    /\ sql_query = None
    /\ sql_result = None
    /\ final_answer = None
    /\ retry_count = 0
    /\ error_log = <<>>
    /\ validation_passed = TRUE
    /\ confidence_score = 1000
    /\ terminal = "none"
    /\ response = None
    /\ sql_calls = 0
    /\ answer_calls = 0
    /\ executed = None
    /\ execute_calls = 0
    /\ NoRbacCheck
    /\ FreshMemory(AgentMaxHistory)
    /\ NoSqlCheck
    /\ NoAnswerCheck
    /\ NoMatch

Authorize ==
    /\ auth_result = None
    /\ auth_result' = Some(validate_query_intent(auth_query, auth_context))
    /\ UNCHANGED <<user_query, user_context, max_retries, debug_mode, pc, sql_query,
                   sql_result, final_answer, retry_count, error_log, validation_passed,
                   confidence_score, terminal, response, sql_calls, answer_calls, executed, execute_calls,
                   rbac_vars, memory_vars,
                   auth_query, auth_context, intent_result,
                   sql_check_vars, answer_check_vars, match_vars>>

ClassifyIntent ==
    /\ intent_result = None
    /\ intent_result' = Some(is_data_query(auth_query))
    /\ UNCHANGED <<user_query, user_context, max_retries, debug_mode, pc, sql_query,
                   sql_result, final_answer, retry_count, error_log, validation_passed,
                   confidence_score, terminal, response, sql_calls, answer_calls, executed, execute_calls,
                   rbac_vars, memory_vars,
                   auth_query, auth_context, auth_result,
                   sql_check_vars, answer_check_vars, match_vars>>

NextAuth == Authorize \/ ClassifyIntent

SpecAuth == InitAuth /\ [][NextAuth]_vars

(***************************************************************************)
(* The SqlSafetyValidator on its own: validate_query applied to one SQL    *)
(* string                                                                  *)
(***************************************************************************)
\* the keywords the statements are built from, in three letter cases
KeywordForms ==
    UNION { { DML_PATTERNS[p],
              Lower(DML_PATTERNS[p]),
              <<DML_PATTERNS[p][1]>> \o Lower(Tail(DML_PATTERNS[p])) } : p \in 1..Len(DML_PATTERNS) }

\* what stands before and after the keyword: it is the head, the tail or an
\* inner word of the statement, stands between brackets, or is a part of a
\* longer identifier
Frames ==
    { << <<>>, <<" ","T","A","B","L","E"," ","y">> >>,
      << <<"S","E","L","E","C","T"," ","1",";"," ">>, <<>> >>,
      << <<"S","E","L","E","C","T"," ","a"," ","F","R","O","M"," ","t"," ","W","H","E","R","E"," ","b"," ","="," ","1"," ","O","R"," ">>, <<" ","c">> >>,
      << <<"S","E","L","E","C","T"," ","(">>, <<")"," ","F","R","O","M"," ","t">> >>,
      << <<"S","E","L","E","C","T"," ">>, <<"d","_","a","t"," ","F","R","O","M"," ","t">> >>,
      << <<"S","E","L","E","C","T"," ","l","a","s","t","_">>, <<" ","F","R","O","M"," ","t">> >>,
      << <<"S","E","L","E","C","T"," ","x">>, <<"9"," ","F","R","O","M"," ","t">> >> }

\* statements that hold none of the keywords
OtherStatements ==
    { <<"S","E","L","E","C","T"," ","C","O","U","N","T","(","*",")"," ","F","R","O","M"," ","P","r","o","p","e","r","t","i","e","s">>,
      <<"S","E","L","E","C","T"," ","a"," ","F","R","O","M"," ","t"," ","U","N","I","O","N"," ","S","E","L","E","C","T"," ","b"," ","F","R","O","M"," ","u">>,
      <<"s","e","l","e","c","t"," ","a"," ","f","r","o","m"," ","t"," ","u","n","i","o","n"," ","a","l","l"," ","s","e","l","e","c","t"," ","b"," ","f","r","o","m"," ","u">>,
      <<"S","E","L","E","C","T"," ","a"," ","F","R","O","M"," ","t"," ","U","N","I","O","N","\n","S","E","L","E","C","T"," ","b"," ","F","R","O","M"," ","u">>,
      <<"S","E","L","E","C","T"," ","a"," ","F","R","O","M"," ","t"," ","U","N","I","O","N"," ","S","E","L","E","C","T"," ","b","\n","F","R","O","M"," ","u">>,
      <<"S","E","L","E","C","T"," ","a"," ","F","R","O","M"," ","t","\n","U","N","I","O","N"," ","S","E","L","E","C","T"," ","b"," ","F","R","O","M"," ","u">>,
      <<"S","E","L","E","C","T"," ","a"," ","F","R","O","M"," ","t"," ","U","N","I","O","N"," ","S","E","L","E","C","T"," ","1">>,
      <<"S","E","L","E","C","T"," ","b"," ","F","R","O","M"," ","u"," ","W","H","E","R","E"," ","c"," ","="," ","'","u","n","i","o","n","'">>,
      <<"S","E","L","E","C","T"," ","a"," ","F","R","O","M"," ","t",";"," ","d","r","o","p","p","e","d">>,
      <<"S","E","L","E","C","T"," ","a"," ","F","R","O","M"," ","t"," ","-","-"," ","d","r","o","p","p","e","d"," ","r","o","w","s">>,
      <<"S","E","L","E","C","T"," ","a"," ","/","*"," ","d","r","o","p","p","e","d"," ","*","/"," ","F","R","O","M"," ","t">>,
      <<"S","E","L","E","C","T"," ","a"," ","F","R","O","M"," ","t"," ","-","-"," ","r","o","w","s","\n","d","r","o","p","p","e","d">> }

SqlTexts ==
    { frame[1] \o word \o frame[2] : word \in KeywordForms, frame \in Frames }
        \cup OtherStatements

InitSql ==
    /\ check_sql \in SqlTexts
    /\ check_result = None
    /\ auth_query = <<>>
    /\ auth_context = [user_id |-> 999, role |-> "admin", owner_id |-> None]
    /\ auth_result = None
    /\ intent_result = None
    /\ user_query = <<>>
    /\ user_context = [user_id |-> 999, role |-> "admin", owner_id |-> None]
    /\ max_retries = 0
    /\ debug_mode = FALSE
    /\ pc = "idle"
    /\ sql_query = None
    /\ sql_result = None
    /\ final_answer = None
    /\ retry_count = 0
    /\ error_log = <<>>
    /\ validation_passed = TRUE
    /\ confidence_score = 1000
    /\ terminal = "none"
    /\ response = None
    /\ sql_calls = 0
    /\ answer_calls = 0
    /\ executed = None
    /\ execute_calls = 0
    /\ NoRbacCheck
    /\ FreshMemory(AgentMaxHistory)
    /\ NoAnswerCheck
    /\ NoMatch

ValidateSql ==
    /\ check_result = None
    /\ check_result' = Some(validate_query(check_sql))
    /\ UNCHANGED <<user_query, user_context, max_retries, debug_mode, pc, sql_query,
                   sql_result, final_answer, retry_count, error_log, validation_passed,
                   confidence_score, terminal, response, sql_calls, answer_calls, executed, execute_calls,
                   rbac_vars, memory_vars,
                   auth_query, auth_context, auth_result, intent_result,
                   check_sql, answer_check_vars, match_vars>>

NextSql == ValidateSql

SpecSql == InitSql /\ [][NextSql]_vars

(***************************************************************************)
(* The AnswerValidator on its own: numbers_match applied to two numbers,   *)
(* validate_answer applied to result rows and an answer                    *)
(***************************************************************************)
\* numbers in thousandths: 0, 0.005, 0.009, 0.01, 0.02, 12, 15, 98, 100 .. 105
MatchNumbers ==
    { 0, 5, -5, 9, -9, 10, 20, 12000, 15000, 98000, 100000, -100000, 101000, 102000,
      103000, 105000 }

\* 0.02 and 0.10
Tolerances == { DefaultTolerance, 100 }

InitMatch ==
    /\ match_a \in MatchNumbers
    /\ match_b \in MatchNumbers
    /\ match_tolerance \in Tolerances
    /\ match_result = None
    /\ auth_query = <<>>
    /\ auth_context = [user_id |-> 999, role |-> "admin", owner_id |-> None]
    /\ auth_result = None
    /\ intent_result = None
    /\ user_query = <<>>
    /\ user_context = [user_id |-> 999, role |-> "admin", owner_id |-> None]
    /\ max_retries = 0
    /\ debug_mode = FALSE
    /\ pc = "idle"
    /\ sql_query = None
    /\ sql_result = None
    /\ final_answer = None
    /\ retry_count = 0
    /\ error_log = <<>>
    /\ validation_passed = TRUE
    /\ confidence_score = 1000
    /\ terminal = "none"
    /\ response = None
    /\ sql_calls = 0
    /\ answer_calls = 0
    /\ executed = None
    /\ execute_calls = 0
    /\ NoRbacCheck
    /\ FreshMemory(AgentMaxHistory)
    /\ NoSqlCheck
    /\ NoAnswerCheck

NumbersMatch ==
    /\ match_result = None
    /\ match_result' = Some(numbers_match(match_a, match_b, match_tolerance))
    /\ UNCHANGED <<user_query, user_context, max_retries, debug_mode, pc, sql_query,
                   sql_result, final_answer, retry_count, error_log, validation_passed,
                   confidence_score, terminal, response, sql_calls, answer_calls, executed, execute_calls,
                   rbac_vars, memory_vars,
                   auth_query, auth_context, auth_result, intent_result,
                   sql_check_vars, answer_check_vars, match_a, match_b, match_tolerance>>

NextMatch == NumbersMatch

SpecMatch == InitMatch /\ [][NextMatch]_vars

\* result rows handed to validate_answer (numeric cells in thousandths)
ValRowSets ==
    { <<>>,
      << <<Number(12000)>> >>,
      << <<Text("text")>> >>,
      << <<Number(12000), Number(1234560)>> >>,
      << <<Number(100000)>> >>,
      << <<Number(12000)>>, <<Number(7000)>> >>,
      << <<Text("AZ"), Number(12000)>>, <<Text("CA"), Number(15000)>> >> }

\* answers handed to validate_answer, with the numbers they state
ValAnswers ==
    { [text |-> "You have 12 properties.", numbers |-> <<12000>>],
      [text |-> "You have 15 properties.", numbers |-> <<15000>>],
      [text |-> "Here are your properties:", numbers |-> <<>>],
      [text |-> "You have 12 properties and 999 units.", numbers |-> <<12000, 999000>>],
      [text |-> "You have 12 properties with average rent of $1,234.56.",
       numbers |-> <<12000, 1234560>>],
      [text |-> "The value is 105.", numbers |-> <<105000>>],
      [text |-> "You have 15 properties and 999 units.", numbers |-> <<15000, 999000>>],
      [text |-> "12 properties, 7 units, 999 tenants.", numbers |-> <<12000, 7000, 999000>>] }

InitAnswer ==
    /\ val_rows \in ValRowSets
    /\ val_answer \in ValAnswers
    /\ val_tolerance \in Tolerances
    /\ val_result = None
    /\ auth_query = <<>>
    /\ auth_context = [user_id |-> 999, role |-> "admin", owner_id |-> None]
    /\ auth_result = None
    /\ intent_result = None
    /\ user_query = <<>>
    /\ user_context = [user_id |-> 999, role |-> "admin", owner_id |-> None]
    /\ max_retries = 0
    /\ debug_mode = FALSE
    /\ pc = "idle"
    /\ sql_query = None
    /\ sql_result = None
    /\ final_answer = None
    /\ retry_count = 0
    /\ error_log = <<>>
    /\ validation_passed = TRUE
    /\ confidence_score = 1000
    /\ terminal = "none"
    /\ response = None
    /\ sql_calls = 0
    /\ answer_calls = 0
    /\ executed = None
    /\ execute_calls = 0
    /\ NoRbacCheck
    /\ FreshMemory(AgentMaxHistory)
    /\ NoSqlCheck
    /\ NoMatch

ValidateAnswer ==
    /\ val_result = None
    /\ val_result' = Some(validate_answer(val_rows, val_answer, val_tolerance))
    /\ UNCHANGED <<user_query, user_context, max_retries, debug_mode, pc, sql_query,
                   sql_result, final_answer, retry_count, error_log, validation_passed,
                   confidence_score, terminal, response, sql_calls, answer_calls, executed, execute_calls,
                   rbac_vars, memory_vars,
                   auth_query, auth_context, auth_result, intent_result,
                   sql_check_vars, match_vars, val_rows, val_answer, val_tolerance>>

NextAnswer == ValidateAnswer

SpecAnswer == InitAnswer /\ [][NextAnswer]_vars

(***************************************************************************)
(* The RbacRewriter on its own: apply_rbac applied to one SQL string and   *)
(* one UserContext                                                         *)
(***************************************************************************)
RbacTexts ==
    { <<"S","E","L","E","C","T"," ","C","O","U","N","T","(","*",")"," ","F","R","O","M"," ","P","r","o","p","e","r","t","i","e","s"," ","A","S"," ","p">>,
      <<"S","E","L","E","C","T"," ","C","O","U","N","T","(","*",")"," ","F","R","O","M"," ","P","r","o","p","e","r","t","i","e","s"," ","A","S"," ","p",";">>,
      <<"S","E","L","E","C","T"," ","*"," ","F","R","O","M"," ","P","r","o","p","e","r","t","i","e","s"," ","A","S"," ","p"," "," ",";"," "," ">>,
      <<"S","E","L","E","C","T"," ","A","V","G","(","U",".","m","o","n","t","h","l","y","_","r","e","n","t",")","\n","F","R","O","M"," ","U","n","i","t","s"," ","U","\n","J","O","I","N"," ","P","r","o","p","e","r","t","i","e","s"," ","A","S"," ","P"," ","O","N"," ","U",".","p","r","o","p","e","r","t","y","_","i","d"," ","="," ","P",".","p","r","o","p","e","r","t","y","_","i","d">>,
      <<"S","E","L","E","C","T"," ","C","O","U","N","T","(","*",")","\n","F","R","O","M"," ","U","n","i","t","s"," ","U","\n","J","O","I","N"," ","P","r","o","p","e","r","t","i","e","s"," ","P"," ","O","N"," ","U",".","p","r","o","p","e","r","t","y","_","i","d"," ","="," ","P",".","p","r","o","p","e","r","t","y","_","i","d">>,
      <<"S","E","L","E","C","T"," ","*"," ","F","R","O","M"," ","P","r","o","p","e","r","t","i","e","s">>,
      <<"S","E","L","E","C","T"," ","*"," ","F","R","O","M"," ","P","r","o","p","e","r","t","i","e","s",";">>,
      <<"S","E","L","E","C","T"," ","*"," ","F","R","O","M"," ","P","r","o","p","e","r","t","i","e","s"," ","W","H","E","R","E"," ","i","s","_","a","c","t","i","v","e"," ","="," ","1">>,
      <<"S","E","L","E","C","T"," ","c","i","t","y"," ","F","R","O","M"," ","P","r","o","p","e","r","t","i","e","s"," ","p"," ","L","I","M","I","T"," ","5">>,
      <<"S","E","L","E","C","T"," ","c","i","t","y"," ","F","R","O","M"," ","P","r","o","p","e","r","t","i","e","s"," ","p","\n","L","I","M","I","T"," ","5">>,
      <<"S","E","L","E","C","T"," ","s","t","a","t","e",","," ","C","O","U","N","T","(","*",")"," ","F","R","O","M"," ","P","r","o","p","e","r","t","i","e","s"," ","G","R","O","U","P"," ","B","Y"," ","s","t","a","t","e">>,
      <<"S","E","L","E","C","T"," ","*"," ","F","R","O","M"," ","P","r","o","p","e","r","t","i","e","s"," ","O","R","D","E","R"," ","B","Y"," ","c","i","t","y">>,
      <<"S","E","L","E","C","T"," ","*"," ","F","R","O","M"," ","P","r","o","p","e","r","t","i","e","s",","," ","U","n","i","t","s">>,
      <<"S","E","L","E","C","T"," ","*"," ","F","R","O","M"," ","P","r","o","p","e","r","t","i","e","s"," ","J","O","I","N"," ","U","n","i","t","s"," ","U"," ","O","N"," ","1"," ","="," ","1">>,
      <<"S","E","L","E","C","T"," ","*"," ","F","R","O","M"," ","P","r","o","p","e","r","t","i","e","s"," ","p"," ","W","H","E","R","E"," ","p",".","s","t","a","t","e"," ","="," ","'","A","Z","'">>,
      <<"S","E","L","E","C","T"," ","*"," ","F","R","O","M"," ","P","r","o","p","e","r","t","i","e","s"," ","p"," ","W","H","E","R","E"," ","p",".","s","t","a","t","e"," ","="," ","'","A","Z","'"," ",";">>,
      <<"S","E","L","E","C","T"," ","C","O","U","N","T","(","*",")"," ","F","R","O","M"," ","U","n","i","t","s">>,
      <<"S","E","L","E","C","T"," ","C","O","U","N","T","(","*",")"," ","F","R","O","M"," ","U","n","i","t","s",";">>,
      <<"S","E","L","E","C","T"," ","*"," ","F","R","O","M"," "," ","P","r","o","p","e","r","t","i","e","s"," ","p">>,
      <<"S","E","L","E","C","T"," ","*"," ","F","R","O","M"," ","P","r","o","p","e","r","t","i","e","s"," ","L","I","M","I","T"," ","5",";">>,
      <<"S","E","L","E","C","T"," ","*"," ","F","R","O","M"," "," ","P","r","o","p","e","r","t","i","e","s"," ","p"," ",";">> }

InitRbac ==
    /\ rbac_sql \in RbacTexts
    /\ rbac_context \in AuthContexts
    /\ rbac_result = None
    /\ auth_query = <<>>
    /\ auth_context = [user_id |-> 999, role |-> "admin", owner_id |-> None]
    /\ auth_result = None
    /\ intent_result = None
    /\ user_query = <<>>
    /\ user_context = [user_id |-> 999, role |-> "admin", owner_id |-> None]
    /\ max_retries = 0
    /\ debug_mode = FALSE
    /\ pc = "idle"
    /\ sql_query = None
    /\ sql_result = None
    /\ final_answer = None
    /\ retry_count = 0
    /\ error_log = <<>>
    /\ validation_passed = TRUE
    /\ confidence_score = 1000
    /\ terminal = "none"
    /\ response = None
    /\ sql_calls = 0
    /\ answer_calls = 0
    /\ executed = None
    /\ execute_calls = 0
    /\ FreshMemory(AgentMaxHistory)
    /\ NoSqlCheck
    /\ NoAnswerCheck
    /\ NoMatch

ApplyRbac ==
    /\ rbac_result = None
    /\ rbac_result' = Some(apply_rbac(rbac_sql, rbac_context))
    /\ UNCHANGED <<user_query, user_context, max_retries, debug_mode, pc, sql_query,
                   sql_result, final_answer, retry_count, error_log, validation_passed,
                   confidence_score, terminal, response, sql_calls, answer_calls, executed, execute_calls,
                   memory_vars, auth_query, auth_context, auth_result, intent_result,
                   sql_check_vars, answer_check_vars, match_vars, rbac_sql, rbac_context>>

NextRbac == ApplyRbac

SpecRbac == InitRbac /\ [][NextRbac]_vars

(***************************************************************************)
(* The ConversationMemory on its own: add_interaction, clear_context and   *)
(* clear_history called in any order on a memory of any small max_history  *)
(***************************************************************************)
MaxHistoryBound == 2

MaxInteractions == 4

\* the arguments of add_interaction
MemoryInteractions ==
    { [query |-> <<"H","o","w"," ","m","a","n","y"," ","p","r","o","p","e","r","t","i","e","s"," ","d","o"," ","I"," ","h","a","v","e","?">>, sql_query |-> Some(<<"S","E","L","E","C","T"," ","C","O","U","N","T","(","*",")"," ","F","R","O","M"," ","P","r","o","p","e","r","t","i","e","s">>),
       result |-> Some(<< <<Number(12000)>> >>), answer |-> "You have 12 properties."],
      [query |-> <<"r","e","n","t"," ","i","n"," ","a","z"," ","f","o","r"," ","L","L","C","3">>, sql_query |-> Some(<<"S","E","L","E","C","T"," ","*">>),
       result |-> Some(<<>>), answer |-> "Here are your properties:"],
      [query |-> <<"h","e","l","l","o">>, sql_query |-> None, result |-> None, answer |-> ""] }

\* _extract_context tabulated over them
interaction_context ==
    [i \in MemoryInteractions |->
        extract_context(i.query, IF i.sql_query = None THEN <<>> ELSE The(i.sql_query))]

InitMemory ==
    /\ max_history \in 0..MaxHistoryBound
    /\ history = <<>>
    /\ current_context = EmptyContext
    /\ interactions = <<>>
    /\ memory_call = "__init__"
    /\ auth_query = <<>>
    /\ auth_context = [user_id |-> 999, role |-> "admin", owner_id |-> None]
    /\ auth_result = None
    /\ intent_result = None
    /\ user_query = <<>>
    /\ user_context = [user_id |-> 999, role |-> "admin", owner_id |-> None]
    /\ max_retries = 0
    /\ debug_mode = FALSE
    /\ pc = "idle"
    /\ sql_query = None
    /\ sql_result = None
    /\ final_answer = None
    /\ retry_count = 0
    /\ error_log = <<>>
    /\ validation_passed = TRUE
    /\ confidence_score = 1000
    /\ terminal = "none"
    /\ response = None
    /\ sql_calls = 0
    /\ answer_calls = 0
    /\ executed = None
    /\ execute_calls = 0
    /\ NoRbacCheck
    /\ NoSqlCheck
    /\ NoAnswerCheck
    /\ NoMatch

\* what no method of the memory changes
memory_frame ==
    <<user_query, user_context, max_retries, debug_mode, pc, sql_query,
      sql_result, final_answer, retry_count, error_log, validation_passed,
      confidence_score, terminal, response, sql_calls, answer_calls, executed, execute_calls,
      auth_query, auth_context, auth_result, intent_result,
      sql_check_vars, answer_check_vars, match_vars, rbac_vars, max_history>>

AddInteraction ==
    /\ Len(interactions) < MaxInteractions
    /\ \E i \in MemoryInteractions :
       \E turn \in {ConversationTurn(i.query, i.sql_query, i.result, i.answer, interaction_context[i])} :
           /\ history' = history_after_add(history, turn, max_history)
           /\ interactions' = Append(interactions, turn)
    /\ current_context' = update_context(history')
    /\ memory_call' = "add_interaction"
    /\ UNCHANGED memory_frame

ClearContext ==
    /\ current_context' = EmptyContext
    /\ memory_call' = "clear_context"
    /\ UNCHANGED <<memory_frame, history, interactions>>

ClearHistory ==
    /\ history' = <<>>
    /\ current_context' = EmptyContext
    /\ interactions' = <<>>
    /\ memory_call' = "clear_history"
    /\ UNCHANGED memory_frame

NextMemory ==
    \/ AddInteraction
    \/ ClearContext
    \/ ClearHistory

SpecMemory == InitMemory /\ [][NextMemory]_vars

(***************************************************************************)
(* Properties of a query call (checked under Spec and FairSpec)            *)
(***************************************************************************)
\* the keywords no executed statement may hold as a whole word
Denylist ==
    { <<"I","N","S","E","R","T">>,
      <<"U","P","D","A","T","E">>,
      <<"D","E","L","E","T","E">>,
      <<"D","R","O","P">>,
      <<"T","R","U","N","C","A","T","E">>,
      <<"A","L","T","E","R">>,
      <<"C","R","E","A","T","E">>,
      <<"R","E","P","L","A","C","E">>,
      <<"E","X","E","C">>,
      <<"E","X","E","C","U","T","E">> }

HasDenylistedKeyword(sql) ==
    \E sql_upper \in {Upper(sql)} : \E kw \in Denylist : SearchWord(sql_upper, kw)

\* C1: every SQL string handed to the executor is free of the denylisted
\* keywords (as whole words, in any letter case): every step that hands a
\* statement to the executor hands over one that is free of them.
C1_ExecutedSqlHasNoDenylistedKeyword ==
    [][execute_calls' # execute_calls => ~HasDenylistedKeyword(The(executed'))]_vars

\* two statements were handed to the executor in one call, for an owner
C1_Witness ==
    /\ execute_calls >= 2
    /\ user_context.role = "owner"
    /\ Len(error_log) >= 1

\* FROM or JOIN, whitespace, then the Properties table as a whole word, at position i
PropertiesClauseAt(sql, i) ==
    LET u == Upper(sql)
        tbl == SkipSpace(u, i + 4)
    IN /\ Boundary(u, i)
       /\ IsAt(u, i, <<"F","R","O","M">>) \/ IsAt(u, i, <<"J","O","I","N">>)
       /\ tbl > i + 4
       /\ WordAt(u, tbl, <<"P","R","O","P","E","R","T","I","E","S">>)

ReferencesProperties(sql) == \E i \in 1..Len(sql) : PropertiesClauseAt(sql, i)

\* the words that end a table reference instead of naming an alias
ClauseKeywords ==
    { <<"W","H","E","R","E">>, <<"J","O","I","N">>, <<"G","R","O","U","P">>, <<"O","R","D","E","R">>, <<"L","I","M","I","T">>, <<"O","F","F","S","E","T">>, <<"O","N">>,
      <<"I","N","N","E","R">>, <<"L","E","F","T">>, <<"R","I","G","H","T">>, <<"C","R","O","S","S">>, <<"U","N","I","O","N">>, <<"H","A","V","I","N","G">> }

\* the alias of Properties in the statement, or the bare table name
PropertiesReference(sql) ==
    LET u == Upper(sql)
        hits == { i \in 1..Len(sql) : PropertiesClauseAt(sql, i) }
        first == CHOOSE i \in hits : \A j \in hits : i <= j
        tbl == SkipSpace(u, first + 4)
        p == SkipSpace(u, tbl + 10)
        q == SkipSpace(u, p + 2)
        WordFrom(k) == SubSeq(sql, k, WordRunEnd(sql, k))
    IN IF p = tbl + 10 \/ ~WordCharAt(sql, p)
       THEN <<"P","r","o","p","e","r","t","i","e","s">>
       ELSE IF Upper(WordFrom(p)) = <<"A","S">> /\ WordCharAt(sql, q)
       THEN WordFrom(q)
       ELSE IF Upper(WordFrom(p)) \in ClauseKeywords \cup {<<"A","S">>}
       THEN <<"P","r","o","p","e","r","t","i","e","s">>
       ELSE WordFrom(p)

OwnerPredicate(sql, owner_id) ==
    PropertiesReference(sql) \o <<".","o","w","n","e","r","_","i","d"," ","="," ">> \o IntToStr(owner_id)

\* C2: for an owner with an owner_id, every executed statement that references
\* Properties in a FROM or JOIN clause holds <ref>.owner_id = <owner_id>, where
\* <ref> is the alias of Properties or the bare table name.
C2_OwnerSqlCarriesOwnPredicate ==
    ( /\ user_context.role = "owner" /\ user_context.owner_id # None
      /\ executed # None /\ ReferencesProperties(The(executed)) ) =>
        Contains(Upper(The(executed)),
                 Upper(OwnerPredicate(The(executed), The(user_context.owner_id))))

\* C3: retry_count never exceeds max_retries, in the state and in the response.
C3_RetryCountWithinMaxRetries ==
    /\ retry_count <= max_retries
    /\ response # None => The(response).retry_count <= max_retries

\* C4: a call that ends in FAILED reports success = false, the fallback answer
\* and retry_count = max_retries, after exactly max_retries SQL generator calls
\* and no answer generator call.
C4_ExhaustionAfterMaxRetriesAttempts ==
    terminal = "FAILED" =>
        /\ The(response).success = FALSE
        /\ The(response).answer = FallbackAnswer
        /\ The(response).retry_count = max_retries
        /\ sql_calls = max_retries
        /\ answer_calls = 0

Terminals == {"BLOCKED", "DONE", "FAILED", "UPSTREAM"}

\* C5: a call starts in generate_sql, eventually reaches exactly one terminal
\* outcome whatever the generator and the executor do, and takes no step after it.
C5_TerminatesInOneTerminalState ==
    /\ pc = "generate_sql" /\ terminal = "none"
    /\ <>(terminal \in Terminals /\ pc = "END")
    /\ [][terminal # "none" => UNCHANGED vars]_vars
    /\ [][terminal' # "none" => terminal' \in Terminals /\ pc' = "END"]_vars

\* a call that ended in FAILED after two passes through handle_error
C5_Witness == terminal = "FAILED" /\ retry_count >= 2 /\ pc = "END"

\* C6: the step out of validate_sql depends only on the validator's verdict on
\* the current SQL: valid goes to execute_sql with the rewritten SQL, invalid
\* goes to handle_error.
C6_ValidateRoutesOnCurrentVerdict ==
    [][pc = "validate_sql" =>
          IF validate_query(The(sql_query)).is_valid
          THEN /\ pc' = "execute_sql"
               /\ sql_query' = Some(apply_rbac(The(sql_query), user_context))
          ELSE pc' = "handle_error"]_vars

\* C7: each pass through handle_error follows exactly one new error_log entry,
\* so after the step the length of error_log equals retry_count.
C7_ErrorLogLengthIsRetryCount ==
    [][pc = "handle_error" => Len(error_log') = retry_count']_vars

\* the answer a blocked call must give: the canned response, else the denial reason
ExpectedBlockedAnswer ==
    [question \in QueryTexts, context \in UserContexts |->
        IF ~is_data_query(question).is_data_query
        THEN Some(is_data_query(question).response)
        ELSE IF ~validate_query_intent(question, context).is_allowed
        THEN Some(validate_query_intent(question, context).error_msg)
        ELSE None]

BlockedAnswer == ExpectedBlockedAnswer[user_query, user_context]

\* C8: a question that is no data query, or that authorize denies, ends in
\* BLOCKED with no generator and no executor call; the answer is the canned
\* response or the denial reason, sql_query is null and retry_count is 0.
C8_BlockedWithoutGeneratorOrExecutor ==
    (pc # "idle" /\ BlockedAnswer # None) =>
        /\ sql_calls = 0 /\ answer_calls = 0 /\ execute_calls = 0 /\ executed = None
        /\ sql_query = None /\ retry_count = 0
        /\ pc \in {"generate_sql", "END"}
        /\ pc = "END" =>
              /\ terminal = "BLOCKED"
              /\ The(response).answer = The(BlockedAnswer)
              /\ The(response).sql_query = None
              /\ The(response).retry_count = 0

\* a call blocked by an authorization denial
C8_Witness ==
    /\ terminal = "BLOCKED"
    /\ ~validate_query_intent(user_query, user_context).is_allowed
    /\ The(response).answer = validate_query_intent(user_query, user_context).error_msg

(***************************************************************************)
(* Properties of authorize (checked under SpecAuth)                        *)
(***************************************************************************)
\* the owners the system knows: LLC1 .. LLC5
KnownOwnerIds == 1..5

\* the question names owner n as LLC<n>, a whole word in any letter case
MentionsOwner(text, n) == SearchWord(Upper(text), <<"L","L","C">> \o IntToStr(n))

MentionsOtherOwner(text, owner_id) ==
    \E n \in KnownOwnerIds : Some(n) # owner_id /\ MentionsOwner(text, n)

ContainsAnyPhrase(text, phrases) == \E ph \in phrases : Contains(Lower(text), ph)

\* the system-wide-scope phrases the claims list
ListedScopePhrases ==
    { <<"a","l","l"," ","p","r","o","p","e","r","t","i","e","s">>, <<"t","o","t","a","l">>, <<"e","v","e","r","y"," ","p","r","o","p","e","r","t","y">>, <<"a","l","l"," ","o","w","n","e","r","s">>, <<"e","n","t","i","r","e">>, <<"e","v","e","r","y","o","n","e">> }

\* the phrases an owner's question is denied for
DeniedScopePhrases ==
    { <<"a","l","l"," ","p","r","o","p","e","r","t","i","e","s">>, <<"t","o","t","a","l"," ","p","r","o","p","e","r","t","i","e","s">>, <<"e","v","e","r","y"," ","p","r","o","p","e","r","t","y">>, <<"a","l","l"," ","o","w","n","e","r","s">>, <<"e","n","t","i","r","e">>,
      <<"e","v","e","r","y","o","n","e">>, <<"a","d","m","i","n">> }

OwnerAsked == auth_result # None /\ auth_context.role = "owner"

\* C9: authorize denies an owner's question that names another owner, and
\* allows one that names only the caller's own and uses no system-wide phrase.
C9_OwnerCannotNameOtherOwner ==
    (OwnerAsked /\ auth_context.owner_id # None) =>
        /\ MentionsOtherOwner(auth_query, auth_context.owner_id) =>
               ~The(auth_result).is_allowed
        /\ ( /\ MentionsOwner(auth_query, The(auth_context.owner_id))
             /\ ~MentionsOtherOwner(auth_query, auth_context.owner_id)
             /\ ~ContainsAnyPhrase(auth_query, ListedScopePhrases)
             /\ ~ContainsAnyPhrase(auth_query, DeniedScopePhrases) )
           => The(auth_result).is_allowed

\* C10 as stated: authorize denies an owner's question holding "all properties",
\* "total", "every property", "all owners", "entire" or "everyone", and denies
\* on no other ground than these phrases or a foreign owner identifier.
C10_DeniesListedScopePhrases ==
    OwnerAsked =>
        /\ ContainsAnyPhrase(auth_query, ListedScopePhrases) => ~The(auth_result).is_allowed
        /\ ~The(auth_result).is_allowed =>
               \/ ContainsAnyPhrase(auth_query, ListedScopePhrases)
               \/ MentionsOtherOwner(auth_query, auth_context.owner_id)

\* C10 as amended: authorize denies an owner's question holding "all properties",
\* "total properties", "every property", "all owners", "entire", "everyone" or
\* "admin", and denies on no other ground than these phrases or a foreign owner
\* identifier.
C10_DeniesScopePhrasesOfTheCode ==
    OwnerAsked =>
        /\ ContainsAnyPhrase(auth_query, DeniedScopePhrases) => ~The(auth_result).is_allowed
        /\ ~The(auth_result).is_allowed =>
               \/ ContainsAnyPhrase(auth_query, DeniedScopePhrases)
               \/ MentionsOtherOwner(auth_query, auth_context.owner_id)

\* an owner denied for the word "admin" alone
C10_Witness ==
    /\ OwnerAsked
    /\ ~The(auth_result).is_allowed
    /\ Contains(Lower(auth_query), <<"a","d","m","i","n">>)
    /\ ~MentionsOtherOwner(auth_query, auth_context.owner_id)

\* the detail-revealing terms a viewer may not ask for
DetailTerms ==
    { <<"a","d","d","r","e","s","s">>, <<"t","e","n","a","n","t">>, <<"n","a","m","e">>, <<"c","o","n","t","a","c","t">>, <<"p","h","o","n","e">>, <<"e","m","a","i","l">>, <<"u","n","i","t"," ","n","u","m","b","e","r">> }

\* the word list or show, later followed by the word properties
AsksForPropertyList(text) ==
    \E lower \in {Lower(text)} :
        \E i \in 1..Len(lower), j \in 1..Len(lower) :
            /\ WordAt(lower, i, <<"l","i","s","t">>) \/ WordAt(lower, i, <<"s","h","o","w">>)
            /\ j >= i + 4
            /\ WordAt(lower, j, <<"p","r","o","p","e","r","t","i","e","s">>)

AsksForDetail(text) ==
    \/ \E lower \in {Lower(text)} : \E term \in DetailTerms : SearchWord(lower, term)
    \/ AsksForPropertyList(text)

\* the text names one owner: LLC<n> or owner <n>, n in 1..6, as whole words
NamesSpecificOwner(text) ==
    \E lower \in {Lower(text)} :
        LET one_to_six == { IntToStr(n) : n \in 1..6 }
        IN \/ SearchWordSpaceThen(lower, <<"l","l","c">>, 0, one_to_six, TRUE)
           \/ SearchWordSpaceThen(lower, <<"o","w","n","e","r">>, 1, one_to_six, TRUE)

\* C11: for a viewer authorize denies exactly the questions that hold a
\* detail-revealing term or name a specific owner, and for an admin it allows
\* every question.
C11_ViewerDeniedExactlyForDetailOrOwner ==
    auth_result # None =>
        /\ auth_context.role = "viewer" =>
               (The(auth_result).is_allowed <=>
                    ~(AsksForDetail(auth_query) \/ NamesSpecificOwner(auth_query)))
        /\ auth_context.role = "admin" => The(auth_result).is_allowed

(***************************************************************************)
(* Properties of validate (checked under SpecSql)                          *)
(***************************************************************************)
\* the reason of a rejection by the keyword denylist
DenylistReason(reason) == reason # <<>> /\ reason[1] = "Forbidden SQL operation detected: "

\* C12: validate rejects every statement that holds a denylisted keyword as a
\* whole word, in any letter case and wherever it stands, and it rejects no
\* statement for a denylisted keyword unless the statement holds one as a
\* whole word (a keyword inside a longer identifier does not count).
C12_RejectsWholeWordKeywordsOnly ==
    check_result # None =>
        /\ HasDenylistedKeyword(check_sql) => ~The(check_result).is_valid
        /\ (~The(check_result).is_valid /\ DenylistReason(The(check_result).error_msg))
               => HasDenylistedKeyword(check_sql)

\* a statement was rejected for a keyword that is not written in upper case
\* and is the last word of the statement
C12_Witness ==
    /\ check_result # None
    /\ ~The(check_result).is_valid
    /\ DenylistReason(The(check_result).error_msg)
    /\ \E kw \in Denylist :
           /\ Len(check_sql) > Len(kw) + 1
           /\ WordAt(check_sql, Len(check_sql) - Len(kw) + 1, Lower(kw))

\* UNION, later SELECT, later FROM, in any letter case and whatever stands between
UnionSelectFrom(sql) ==
    \E sql_upper \in {Upper(sql)} :
        \E i \in 1..Len(sql_upper) :
            /\ IsAt(sql_upper, i, <<"U","N","I","O","N">>)
            /\ \E j \in (i + 5)..Len(sql_upper) :
                   /\ IsAt(sql_upper, j, <<"S","E","L","E","C","T">>)
                   /\ \E k \in (j + 6)..Len(sql_upper) : IsAt(sql_upper, k, <<"F","R","O","M">>)

\* C13: validate rejects every statement in which UNION is followed later by
\* SELECT and then by FROM, whatever characters (line breaks included)
\* separate the three keywords and in any letter case.
C13_RejectsUnionSelectFrom ==
    check_result # None =>
        (UnionSelectFrom(check_sql) => ~The(check_result).is_valid)

\* the four injection shapes, by the text of their patterns
InjectionShapes == { ";\\s*DROP", "--.*DROP", "/\\*.*DROP.*\\*/", "UNION.*SELECT.*FROM" }

ShapeMatches(shape, sql_upper) ==
    CASE shape = ";\\s*DROP" ->
             \E i \in 1..Len(sql_upper) :
                 /\ sql_upper[i] = ";"
                 /\ \E j \in (i + 1)..Len(sql_upper) :
                        AllSpace(sql_upper, i + 1, j - 1) /\ IsAt(sql_upper, j, <<"D","R","O","P">>)
      [] shape = "--.*DROP" -> SearchDotStar(sql_upper, <<"-","-">>, <<"D","R","O","P">>)
      [] shape = "/\\*.*DROP.*\\*/" -> SearchDotStar3(sql_upper, <<"/","*">>, <<"D","R","O","P">>, <<"*","/">>)
      [] shape = "UNION.*SELECT.*FROM" -> SearchDotStar3(sql_upper, <<"U","N","I","O","N">>, <<"S","E","L","E","C","T">>, <<"F","R","O","M">>)

\* the reason holds the pattern as one of its parts, after the fixed head
ReasonNames(reason, pattern) == \E p \in 2..Len(reason) : reason[p] = pattern

\* C14: whenever validate rejects a statement, the returned reason names a
\* pattern that matched it: a denylisted keyword the statement holds as a
\* whole word, or an injection shape the statement has.
C14_ReasonNamesMatchedPattern ==
    check_result # None /\ ~The(check_result).is_valid =>
        \E sql_upper \in {Upper(check_sql)}, reason \in {The(check_result).error_msg} :
            \/ \E kw \in Denylist : SearchWord(sql_upper, kw) /\ ReasonNames(reason, kw)
            \/ \E shape \in InjectionShapes :
                   ShapeMatches(shape, sql_upper) /\ ReasonNames(reason, shape)

(***************************************************************************)
(* Further properties of a query call (checked under Spec)                 *)
(***************************************************************************)
\* what one step adds to the numbers of generator calls: a pass through
\* generate_sql for an authorized data query adds one SQL call, the answer
\* stage adds one answer call, and no other step adds any
OneGeneratorCallPerPass ==
    /\ pc = "generate_sql" /\ ReachesSqlGenerator =>
           sql_calls' = sql_calls + 1 /\ answer_calls' = answer_calls
    /\ pc = "generate_answer" =>
           answer_calls' = answer_calls + 1 /\ sql_calls' = sql_calls
    /\ ~(pc = "generate_sql" /\ ReachesSqlGenerator) /\ pc # "generate_answer" =>
           sql_calls' = sql_calls /\ answer_calls' = answer_calls

\* C15: each pass through generate_sql for an authorized data query issues
\* exactly one SQL generator call and the answer stage exactly one answer
\* call; a call that ends in DONE after k failed attempts has issued k + 1
\* SQL calls and one answer call, and no call issues more than
\* max_retries + 2 generator calls.
C15_GeneratorCallsCounted ==
    /\ [][OneGeneratorCallPerPass]_vars
    /\ [](terminal = "DONE" => sql_calls = retry_count + 1 /\ answer_calls = 1)
    /\ [](sql_calls + answer_calls <= max_retries + 2)

\* a call ended in DONE after one failed attempt, with three generator calls
C15_Witness ==
    /\ terminal = "DONE"
    /\ retry_count = 1
    /\ sql_calls = 2
    /\ answer_calls = 1

\* the category of each error text the generator raises with
ExpectedCategory ==
    [e \in UpstreamErrors |->
        CASE e = <<"4","2","9"," ","R","E","S","O","U","R","C","E","_","E","X","H","A","U","S","T","E","D">> -> "API_QUOTA"
          [] e = <<"I","n","v","a","l","i","d"," ","A","P","I","_","K","E","Y">> -> "API_AUTH"
          [] e = <<"C","o","n","n","e","c","t","i","o","n"," ","r","e","s","e","t">> -> "NETWORK"
          [] e = <<"s","q","l","i","t","e"," ","f","i","l","e"," ","m","i","s","s","i","n","g">> -> "DATABASE"
          [] e = <<"u","n","a","b","l","e"," ","t","o"," ","o","p","e","n"," ","d","a","t","a","b","a","s","e"," ","f","i","l","e"," ","/","s","r","v","/","a","p","p","/","p","m",".","d","b">> -> "DATABASE"
          [] OTHER -> "GENERAL"]

\* the friendly message of each category
ExpectedMessage ==
    [c \in {"API_QUOTA", "API_AUTH", "NETWORK", "DATABASE", "GENERAL"} |->
        CASE c = "API_QUOTA" ->
               "I've reached my API usage limit. Please try again in a minute or contact your administrator for a higher quota tier."
          [] c = "API_AUTH" ->
               "I'm having trouble connecting to my AI service. Please contact your administrator to verify the API key configuration."
          [] c = "NETWORK" ->
               "I'm having trouble connecting to my AI service. Please check your internet connection and try again in a moment."
          [] c = "DATABASE" ->
               "I'm having trouble accessing the database. Please ensure the database file exists."
          [] OTHER ->
               "I encountered an unexpected error while processing your question. Please try rephrasing or contact your administrator."]

\* the step in which the generator raises: the call ends there, nothing is
\* executed and retry_count stays as it was
RaisingStepEndsCall ==
    terminal' = "UPSTREAM" =>
        /\ pc' = "END"
        /\ retry_count' = retry_count
        /\ execute_calls' = execute_calls
        /\ sql_calls' + answer_calls' = sql_calls + answer_calls + 1

\* the response of a call in which the generator raised
UpstreamResponse ==
    terminal = "UPSTREAM" =>
        \E r \in response :
            /\ r.success = FALSE
            /\ \E e \in UpstreamErrors :
                   /\ r.answer = <<ExpectedMessage[ExpectedCategory[e]]>>
                   /\ r.errors = <<ExpectedCategory[e]>>
                   /\ r.technical_details \in {None, Some(e)}
            /\ ~debug_mode => r.technical_details = None

\* C16: when the generator raises, the call ends at once in a terminal
\* failure: no generator or executor call follows, retry_count is not
\* incremented, the response has success = false and the friendly message of
\* the error's category, and it holds the raw error text only in debug mode.
C16_GeneratorFailureEndsCall ==
    /\ [][RaisingStepEndsCall]_vars
    /\ [][terminal # "UPSTREAM"]_vars
    /\ [](UpstreamResponse)

\* the generator raised after one failed attempt, debug mode off
C16_Witness ==
    /\ terminal = "UPSTREAM"
    /\ retry_count = 1
    /\ ~debug_mode
    /\ sql_calls = 2

\* the error texts of the executor and of the generator, as the sanitizer leaves them
SanitizedExecutionErrors == { sanitize_error(e) : e \in ExecutionErrors }

SanitizedUpstreamErrors == { sanitize_error(e) : e \in UpstreamErrors }

\* C17: every error text of the executor or of an upstream failure that is
\* appended to error_log or returned to the caller (in errors or in
\* technical_details) is the text the sanitizer makes of it.
C17_ErrorTextsAreSanitized ==
    /\ \A i \in 1..Len(error_log) :
           error_log[i][1] = ExecutionPrefix => error_log[i][2] \in SanitizedExecutionErrors
    /\ \A r \in response :
           /\ \A i \in 1..Len(r.errors) :
                  (Len(r.errors[i]) = 2 /\ r.errors[i][1] = ExecutionPrefix)
                      => r.errors[i][2] \in SanitizedExecutionErrors
           /\ \A text \in r.technical_details : text \in SanitizedUpstreamErrors

(***************************************************************************)
(* Properties of the AnswerValidator (checked under SpecAnswer and         *)
(* SpecMatch)                                                              *)
(***************************************************************************)
\* the numbers among the cells of the rows
ResultNumbers(rows) ==
    { rows[i][j].number : <<i, j>> \in { p \in (1..Len(rows)) \X (1..3) :
                              p[2] <= Len(rows[p[1]]) /\ rows[p[1]][p[2]].is_number } }

\* the positions of the answer numbers that match no result number
UnmatchedPositions(rows, answer, tolerance) ==
    { i \in 1..Len(answer.numbers) :
          \A n \in ResultNumbers(rows) : ~numbers_match(answer.numbers[i], n, tolerance) }

\* C18: validate_answer returns is_valid = true exactly when every number of
\* the answer matches, within the tolerance, at least one number of the
\* result rows; an answer without numbers and an answer whose numbers all
\* match are valid with confidence 1.0 and no warning.
C18_ValidExactlyWhenAllNumbersMatch ==
    \A r \in val_result :
        \E unmatched \in {UnmatchedPositions(val_rows, val_answer, val_tolerance)} :
            /\ r.is_valid <=> unmatched = {}
            /\ unmatched = {} => r.confidence = 1000 /\ r.warning = None

\* an answer with two numbers, both matched by the rows, was validated
C18_Witness ==
    /\ val_result # None
    /\ Len(val_answer.numbers) = 2
    /\ The(val_result).is_valid
    /\ The(val_result).confidence = 1000

\* the outcome is a partial match: the rows hold numbers and some number of
\* the answer matches none of them
PartialMatch(rows, answer, tolerance) ==
    ResultNumbers(rows) # {} /\ UnmatchedPositions(rows, answer, tolerance) # {}

\* the number of answer numbers that match a result number
MatchedCount(rows, answer, tolerance) ==
    Len(answer.numbers) - Cardinality(UnmatchedPositions(rows, answer, tolerance))

\* among the partial matches of the inputs, a larger matched fraction than
\* that of the validated answer gives a larger confidence
ConfidenceGrowsWithMatchedFraction(r) ==
    \A rows \in ValRowSets, answer \in ValAnswers :
        ( /\ PartialMatch(rows, answer, val_tolerance)
          /\ MatchedCount(rows, answer, val_tolerance) * Len(val_answer.numbers)
                 > MatchedCount(val_rows, val_answer, val_tolerance) * Len(answer.numbers) )
            => validate_answer(rows, answer, val_tolerance).confidence > r.confidence

\* C19: the confidence of validate_answer lies in [0, 1]; an answer with
\* numbers against rows without numbers is invalid with confidence below 0.5;
\* a partial match is invalid with a confidence in [0.3, 1.0) that grows with
\* the matched fraction, and its warning lists every unmatched number.
C19_ConfidenceOfRejectedAnswers ==
    \A r \in val_result :
        /\ r.confidence \in 0..1000
        /\ (val_answer.numbers # <<>> /\ ResultNumbers(val_rows) = {}) =>
               ~r.is_valid /\ r.confidence < 500
        /\ PartialMatch(val_rows, val_answer, val_tolerance) =>
               /\ ~r.is_valid
               /\ r.confidence >= 300
               /\ r.confidence < 1000
               /\ ConfidenceGrowsWithMatchedFraction(r)
               /\ \A i \in UnmatchedPositions(val_rows, val_answer, val_tolerance) :
                      \E w \in r.warning : \E k \in 1..Len(w) : w[k] = val_answer.numbers[i]

\* an answer with three numbers, two of them matched by the rows, was validated
C19_Witness ==
    /\ val_result # None
    /\ Len(val_answer.numbers) = 3
    /\ MatchedCount(val_rows, val_answer, val_tolerance) = 2
    /\ ~The(val_result).is_valid
    /\ The(val_result).confidence > 650

\* both numbers lie within 0.01 of zero
BothNearZero(a, b) == Abs(a) < 10 /\ Abs(b) < 10

\* |a - b| <= tolerance * max(|a|, |b|), the numbers and the tolerance in thousandths
WithinRelativeTolerance(a, b, tolerance) ==
    \E larger \in {Abs(a), Abs(b)} :
        /\ larger >= Abs(a)
        /\ larger >= Abs(b)
        /\ Abs(a - b) * 1000 <= tolerance * larger

\* the stated values of numbers_match with the default tolerance
MatchExamples ==
    { <<100000, 101000, TRUE>>, <<100000, 102000, TRUE>>, <<100000, 103000, FALSE>>,
      <<0, 5, TRUE>>, <<0, 20, FALSE>> }

\* C20: numbers_match is symmetric in its two numbers; it is true exactly
\* when |a - b| <= tolerance * max(|a|, |b|) or both numbers lie within 0.01
\* of zero; with the tolerance 0.02 it gives true for (100, 101), (100, 102)
\* and (0, 0.005), false for (100, 103) and (0, 0.02).
C20_NumbersMatchRelativeAndSymmetric ==
    \A result \in match_result :
        /\ result = numbers_match(match_b, match_a, match_tolerance)
        /\ result <=> ( \/ BothNearZero(match_a, match_b)
                        \/ WithinRelativeTolerance(match_a, match_b, match_tolerance) )
        /\ \A ex \in MatchExamples :
               (match_a = ex[1] /\ match_b = ex[2] /\ match_tolerance = 20) => result = ex[3]

\* 98 and 100 were matched with the tolerance 0.02: the difference is within
\* 2 % of the larger number and not of the smaller one
C20_Witness ==
    /\ match_result = Some(TRUE)
    /\ match_a = 98000
    /\ match_b = 100000
    /\ match_tolerance = 20

(***************************************************************************)
(* Properties of the UserContext (checked under SpecAuth)                  *)
(***************************************************************************)
\* owner_id is set if and only if the role is owner
WellFormedContext(context) == context.owner_id # None <=> context.role = "owner"

\* C21: every UserContext that is used to authorize a question has an
\* owner_id if and only if its role is owner.
C21_AuthorizedContextsAreWellFormed ==
    auth_result # None => WellFormedContext(auth_context)

(***************************************************************************)
(* Properties of apply (checked under SpecRbac)                            *)
(***************************************************************************)
\* apply was given the statement by an owner who has an owner_id
OwnerApplied == rbac_result # None /\ rbac_context.role = "owner" /\ rbac_context.owner_id # None

\* the statement without trailing whitespace and without its terminator
WithoutTerminator(sql) == RStripSpace(RStripChar(RStripSpace(sql), ";"))

\* C22: the predicate apply inserts names the alias of Properties when the
\* table is followed by one (with or without AS), and the bare table name
\* when it is followed by WHERE, JOIN, GROUP BY, ORDER BY, LIMIT, a comma or
\* the end of the statement.
C22_PredicateUsesAliasOrTableName ==
    ( /\ OwnerApplied
      /\ ReferencesProperties(rbac_sql)
      /\ Contains(The(rbac_result), <<".","o","w","n","e","r","_","i","d"," ","="," ">>) ) =>
        Contains(The(rbac_result), OwnerPredicate(rbac_sql, The(rbac_context.owner_id)))

\* the statement with the text ins inserted after its first k characters
SplicedAt(sql, k, ins) == SubSeq(sql, 1, k) \o ins \o SubSeq(sql, k + 1, Len(sql))

\* the text with or without one blank on either side
Padded(text) == { l \o text \o r : l \in {<<>>, <<" ">>}, r \in {<<>>, <<" ">>} }

\* the number of characters before the leftmost GROUP BY, ORDER BY, LIMIT or
\* OFFSET keyword, the whole statement when it holds none
BeforeTerminalClause(sql) ==
    LET starts == { i \in 1..Len(sql) :
                      \E w \in {<<"G","R","O","U","P"," ","B","Y">>, <<"O","R","D","E","R"," ","B","Y">>, <<"L","I","M","I","T">>, <<"O","F","F","S","E","T">>} : WordAt(Upper(sql), i, w) }
    IN IF starts = {} THEN Len(sql)
       ELSE (CHOOSE i \in starts : \A j \in starts : i <= j) - 1

\* the statements the one insertion the rewriter is allowed gives
ExpectedRewrites(sql, owner_id) ==
    LET statement == WithoutTerminator(sql)
        predicate == OwnerPredicate(sql, owner_id)
        where == FirstWord(statement, <<"W","H","E","R","E">>)
    IN IF where > 0
       THEN { SplicedAt(statement, where + 4, ins) : ins \in Padded(predicate \o <<" ","A","N","D">>) }
       ELSE { SplicedAt(statement, BeforeTerminalClause(statement), ins) :
                 ins \in Padded(<<"W","H","E","R","E"," ">> \o predicate) }

\* C23: for an owner and a statement that references Properties the output is
\* the statement without its terminator and with one insertion, the predicate
\* and AND after the first WHERE or else WHERE and the predicate before the
\* leftmost GROUP BY, ORDER BY, LIMIT or OFFSET (at the end when there is
\* none); every other character of the statement is kept.
C23_OneInsertionNothingElseChanged ==
    (OwnerApplied /\ ReferencesProperties(rbac_sql)) =>
        The(rbac_result) \in ExpectedRewrites(rbac_sql, The(rbac_context.owner_id))

\* the statement ends in a terminator, with any whitespace around it
EndsInTerminator(sql) ==
    LET text == RStripSpace(sql)
    IN Len(text) > 0 /\ text[Len(text)] = ";"

\* C24: for an owner and a statement that references Properties and ends in
\* a terminator surrounded by any whitespace, the output holds
\* WHERE <ref>.owner_id = <owner_id> and no semicolon before its end.
C24_TerminatedStatementIsScoped ==
    ( /\ OwnerApplied
      /\ ReferencesProperties(rbac_sql)
      /\ EndsInTerminator(rbac_sql) ) =>
        /\ Contains(The(rbac_result), <<"W","H","E","R","E"," ">> \o OwnerPredicate(rbac_sql, The(rbac_context.owner_id)))
        /\ \A i \in 1..(Len(The(rbac_result)) - 1) : The(rbac_result)[i] # ";"

\* C25: apply returns its input unchanged when the role is not owner, when
\* owner_id is not set, and when the role is owner but the statement does not
\* reference Properties in a FROM or JOIN clause.
C25_UnchangedWhenNotApplicable ==
    ( /\ rbac_result # None
      /\ \/ rbac_context.role # "owner"
         \/ rbac_context.owner_id = None
         \/ ~ReferencesProperties(rbac_sql) ) =>
        The(rbac_result) = rbac_sql

\* C26: when a call ends in DONE, validation_passed and confidence of the
\* response are the is_valid flag and the confidence validate_answer returns
\* for the executed rows and the generated answer; the raw result rows are
\* appended to the answer only when is_valid is false; and the answer is the
\* generator's text alone when is_valid is true and the confidence is 1.0.
C26_ResponseCarriesAnswerValidation ==
    terminal = "DONE" =>
        \E generated \in Answers :
            LET verdict == validate_answer(The(sql_result), generated, DefaultTolerance)
                answer == The(response).answer
            IN /\ answer[1] = generated.text
               /\ The(response).validation_passed = verdict.is_valid
               /\ The(response).confidence = verdict.confidence
               /\ (Len(answer) = 4 /\ answer[4] # None) =>
                      (~verdict.is_valid /\ answer[4] = Some(The(sql_result)))
               /\ (verdict.is_valid /\ verdict.confidence = 1000) => answer = <<generated.text>>

\* a call ends in DONE with an answer that states the number of the rows
C26_Witness ==
    /\ terminal = "DONE"
    /\ The(response).validation_passed
    /\ The(response).confidence = 1000
    /\ The(response).answer = <<"You have 12 properties.">>
    /\ sql_result = Some(<< <<Number(12000)>> >>)

(***************************************************************************)
(* Properties of the ConversationMemory (checked under SpecMemory)         *)
(***************************************************************************)
Min(a, b) == IF a <= b THEN a ELSE b

\* the last n elements of a sequence
LastN(s, n) == SubSeq(s, Len(s) - n + 1, Len(s))

\* C27: after any sequence of add_interaction, clear_context and clear_history
\* calls the history is no longer than max_history and holds the most recent
\* min(n, max_history) interactions in insertion order; clear_history leaves
\* the history and the current context empty.
C27_HistoryHoldsMostRecentInteractions ==
    /\ Len(history) <= max_history
    /\ history = LastN(interactions, Min(Len(interactions), max_history))
    /\ memory_call = "clear_history" => (history = <<>> /\ current_context = EmptyContext)

\* an add_interaction has evicted the oldest turn of a full history
C27_Witness ==
    /\ memory_call = "add_interaction"
    /\ max_history >= 1
    /\ Len(interactions) > max_history
    /\ Len(history) = max_history
    /\ history[1] # interactions[1]

\* one step of a call keeps the order of the external calls: the executor runs
\* only from the execute node, on the statement validate_query accepted and
\* apply_rbac rewrote in the same attempt, whose statement the SQL generator
\* returned in the same attempt; the answer generator runs once, after the
\* executor has returned rows; the SQL generator never runs after that
ExternalCallsInOrder ==
    /\ pc' = "validate_sql" =>
           /\ pc = "generate_sql"
           /\ sql_calls' = sql_calls + 1
           /\ sql_calls' = retry_count + 1
           /\ sql_query' # None /\ The(sql_query') \in CleanedOutputs
    /\ pc' = "execute_sql" =>
           /\ pc = "validate_sql"
           /\ security_verdict[The(sql_query)].is_valid
           /\ sql_query' = Some(scoped_sql[The(sql_query), user_context])
    /\ execute_calls' # execute_calls =>
           /\ pc = "execute_sql"
           /\ execute_calls' = execute_calls + 1
           /\ executed' = sql_query
           /\ sql_calls = retry_count + 1
           /\ sql_result = None
    /\ answer_calls' # answer_calls =>
           /\ answer_calls = 0 /\ answer_calls' = 1
           /\ sql_result # None
           /\ execute_calls >= 1
    /\ sql_calls' # sql_calls => sql_result = None

\* C28: within one call the executor is invoked only after a SQL generator
\* call of the same attempt whose output passed validate and was rewritten by
\* apply, the answer generator is invoked at most once and only after an
\* executor success of the call, and no SQL generator call follows an
\* executor success.
C28_ExternalCallsAreOrdered ==
    /\ [][ExternalCallsInOrder]_vars
    /\ [](answer_calls <= 1)
    /\ [](sql_result # None => sql_calls = retry_count + 1)

\* a call whose second attempt was executed and answered
C28_Witness ==
    /\ terminal = "DONE"
    /\ retry_count = 1
    /\ execute_calls >= 1
    /\ answer_calls = 1
    /\ executed = sql_query

\* the generator raised after at least one failed attempt of the call
RaisedAfterFailedAttempts == terminal = "UPSTREAM" /\ retry_count >= 1

\* C29: when the generator raises after k >= 1 failed attempts of the call,
\* the response reports retry_count 0, no sql_query and the error category as
\* the only entry of errors, whatever the call had counted and logged, and no
\* interaction is added to the conversation memory.
C29_RaiseDiscardsAttemptsAndSkipsMemory ==
    /\ [](RaisedAfterFailedAttempts =>
             /\ The(response).retry_count = 0
             /\ The(response).sql_query = None
             /\ \E e \in UpstreamErrors : The(response).errors = <<ExpectedCategory[e]>>
             /\ history = <<>> /\ interactions = <<>> /\ current_context = EmptyContext)
    /\ [][terminal' = "UPSTREAM" => UNCHANGED <<history, interactions, current_context>>]_vars

\* the generator raised in the second attempt, one failure logged and a
\* statement in the state
C29_Witness ==
    /\ terminal = "UPSTREAM"
    /\ retry_count = 1
    /\ Len(error_log) >= 1
    /\ sql_query # None
    /\ The(response).retry_count = 0

\* the call was denied by validate_query_intent
AuthorizationDenied ==
    /\ terminal = "BLOCKED"
    /\ intent_check[user_query].is_data_query
    /\ ~authorization[user_query, user_context].is_allowed

\* C30: success is true exactly when the call produced a final answer, that
\* is when it ended in BLOCKED or DONE; a call blocked by an authorization
\* denial returns success = true and one error entry, which starts with
\* "Authorization error"; a call that ends in FAILED returns success = false
\* with validation_passed = true and confidence 1.0.
C30_SuccessMeansFinalAnswer ==
    /\ terminal # "none" =>
           /\ The(response).success <=> final_answer # None
           /\ The(response).success <=> terminal \in {"BLOCKED", "DONE"}
    /\ AuthorizationDenied =>
           /\ The(response).success
           /\ Len(The(response).errors) = 1
           /\ The(response).errors[1][1] = "Authorization error: "
    /\ terminal = "FAILED" =>
           /\ ~The(response).success
           /\ The(response).validation_passed
           /\ The(response).confidence = 1000

\* a denied call has returned
C30_Witness ==
    /\ AuthorizationDenied
    /\ The(response).success
    /\ The(response).errors # <<>>

====
